---- MODULE Spec2Model ----
(***************************************************************************)
(* A model of the appointment-booking chatbot: the webhook handler of      *)
(* src/main.py and the extraction/merge functions of src/llm_utils.py.     *)
(*                                                                         *)
(* One action handles one inbound webhook message to completion.  Python   *)
(* values are modelled as strings: None is "None", a key that is missing   *)
(* from a dict is "Absent", True/False are "True"/"False".  A session is a *)
(* record over every key the code ever writes.  The dates produced by      *)
(* datetime.now() are the symbolic values TODAY and TOMORROW.              *)
(***************************************************************************)
EXTENDS Integers, Sequences, FiniteSets, TLC

VARIABLES
    session_data,           \* user -> session dict (NoSession when the key is missing)
    processed_message_ids,  \* set of message ids already handled
    sent,                   \* outbound messages of the last handled message, in order
    record,                 \* booking record built by the last handled message
    status,                 \* value returned for the last message
    handled,                \* message id -> how many times a message with it was acted upon (not ignored)
    clears,                 \* how many times processed_message_ids was cleared
    steps,                  \* number of messages received so far
    extracted,              \* the last direct call of process_user_message: its arguments and what it returned
    observed,               \* the message handled last under observation: its inputs and the session before it
    io,                     \* the outcome of the last step's I/O: the file write of the record, the post to the backend
    tasks,                  \* the handler coroutines in flight: the message of each and how far it got
    loop,                   \* the coroutine that holds the event loop (0 when the loop is free)
    normalized,             \* the last direct call of normalize_date_time: its arguments and its result
    flow,                   \* the messages of the guided booking handled so far
    fault                   \* what went wrong in the last step: the shape of its payload, the outcome of its sends

vars == <<session_data, processed_message_ids, sent, record, status, handled, clears, steps, extracted,
          observed, io, tasks, loop, fault, normalized, flow>>

----------------------------------------------------------------------------
(* Bounds of the model *)

\* a behaviour receives at most MaxEvents messages
MaxEvents == 3

\* a behaviour of the deliveries with ids receives at most MaxDedupEvents messages
MaxDedupEvents == 5

\* a behaviour of the direct calls of process_user_message takes at most
\* MaxExtractEvents steps (button replies that build the session, then calls)
MaxExtractEvents == 3

\* a behaviour that ends in an observed message receives at most
\* MaxObserveEvents messages, the observed one included
MaxObserveEvents == 3

\* a behaviour with failing I/O takes at most MaxIoEvents steps
MaxIoEvents == 2

\* a dialogue about a medicine delivery has at most MaxMedicineEvents messages
MaxMedicineEvents == 4

\* a behaviour of the direct calls of normalize_date_time makes at most
\* MaxNormalizeCalls calls
MaxNormalizeCalls == 2

\* at most MaxTasks requests are in flight in a behaviour of the event loop
MaxTasks == 2

\* message ids are drawn from 1..MaxMsgId (0 stands for a message without an id)
MaxMsgId == 3

\* the source clears processed_message_ids when it holds more than 2000 ids
\* (src/main.py:235); the model uses this smaller cap so that the clear happens
DedupCap == 1

----------------------------------------------------------------------------
(* Python values *)

None == "None"
Absent == "Absent"
True == "True"
False == "False"

TODAY == "D+0"
TOMORROW == "D+1"

Users == {"u1", "u2"}

Keys ==
    {"name", "age", "date", "time", "category", "sub_category", "location",
     "location_coords", "location_address", "awaiting_address", "awaiting_field",
     "confirmed", "greeted", "state", "last_interaction",
     "medicine_text", "prescription_uploaded", "prescription_media_id", "already_greeted"}

\* the dict with no key at all; session_data[u] = NoSession models a missing key u
NoSession == [k \in Keys |-> Absent]

\* dict.get(k): a missing key reads as None
Get(d, k) == IF d[k] = Absent THEN None ELSE d[k]

\* Python truthiness of the values that occur
Truthy(v) == v \notin {Absent, None, "", False}

\* d[k] = v
Put(d, k, v) == [d EXCEPT ![k] = v]

\* d.pop(k, None)
Pop(d, k) == [d EXCEPT ![k] = Absent]

\* d.setdefault(k, v)
SetDefault(d, k, v) == IF d[k] = Absent THEN [d EXCEPT ![k] = v] ELSE d

make_empty_session ==
    [k \in Keys |->
        CASE k \in {"awaiting_address", "confirmed", "greeted"} -> False
          [] k = "state" -> "main_menu"
          [] k \in {"medicine_text", "prescription_uploaded", "prescription_media_id", "already_greeted"} -> Absent
          [] OTHER -> None]

\* session_data.get(user) or make_empty_session()
SessOrEmpty(d) == IF d = NoSession THEN make_empty_session ELSE d

----------------------------------------------------------------------------
(* Tables of src/llm_utils.py *)

CATEGORY_MAP ==
    [c \in {"care at home", "medicine delivery", "lab test"} |->
        CASE c = "care at home" -> {"nurse visit", "physiotherapy", "elderly care", "post surgery care"}
          [] c = "medicine delivery" -> {"regular medicines", "urgent medicines", "upload prescription"}
          [] c = "lab test" -> {"blood test", "urine test", "covid test", "full body checkup"}]

ButtonIds ==
    {"date_today", "date_tomorrow", "date_pick", "time_morning", "time_afternoon", "time_evening",
     "care_at_home", "medicine_delivery", "lab_test", "nurse_visit", "physiotherapy", "elderly_care",
     "post_surgery_care", "regular_meds", "urgent_meds", "prescription_upload", "blood_test",
     "urine_test", "covid_test", "full_body_checkup", "share_location", "type_address",
     "confirm_yes", "confirm_no"}

BUTTON_MAPPINGS ==
    [b \in ButtonIds |->
        CASE b = "date_today" -> "today"
          [] b = "date_tomorrow" -> "tomorrow"
          [] b = "date_pick" -> "pick"
          [] b = "time_morning" -> "morning"
          [] b = "time_afternoon" -> "afternoon"
          [] b = "time_evening" -> "evening"
          [] b = "care_at_home" -> "care at home"
          [] b = "medicine_delivery" -> "medicine delivery"
          [] b = "lab_test" -> "lab test"
          [] b = "nurse_visit" -> "nurse visit"
          [] b = "physiotherapy" -> "physiotherapy"
          [] b = "elderly_care" -> "elderly care"
          [] b = "post_surgery_care" -> "post surgery care"
          [] b = "regular_meds" -> "regular medicines"
          [] b = "urgent_meds" -> "urgent medicines"
          [] b = "prescription_upload" -> "upload prescription"
          [] b = "blood_test" -> "blood test"
          [] b = "urine_test" -> "urine test"
          [] b = "covid_test" -> "covid test"
          [] b = "full_body_checkup" -> "full body checkup"
          [] b = "share_location" -> "share_location"
          [] b = "type_address" -> "type_address"
          [] b = "confirm_yes" -> "confirm_yes"
          [] b = "confirm_no" -> "confirm_no"]

----------------------------------------------------------------------------
(* The inbound messages of the model.  Strings cannot be taken apart in     *)
(* TLA+, so each string operation of the code is a table over the texts     *)
(* and reply ids that the model's messages carry.                           *)

\* bodies of typed text messages
\* the text of one character U+200B (zero width space): str.strip() keeps it,
\* it is not white space
ZWSP == "<U+200B>"

Texts ==
    {"Yes", "no", "hi", "Hello ", "test", "start over", "32", "150", "12 mg road",
     "hello there", "tomorrow morning", "i want today", "morning please",
     "blood test tomorrow morning", "i need a nurse", "urgent medicine",
     "send doctor's prescription", "type the medicine", ZWSP}

\* ids carried by button and list replies
ReplyIds ==
    {"care_at_home", "medicine_delivery", "lab_test", "nurse_visit", "blood_test",
     "send_doctors_prescription", "type_the_medicine", "date_today", "date_tomorrow",
     "date_pick", "time_morning", "time_evening", "confirm_yes", "confirm_no",
     "type_address", "share_location"}

\* str.strip()
Strip(t) == IF t = "Hello " THEN "Hello" ELSE t

\* str.lower()
Lower(t) ==
    CASE t = "Yes" -> "yes"
      [] t = "Hello" -> "hello"
      [] t = "Hello " -> "hello "
      [] OTHER -> t

\* re.search(r"\b<w>\b", text.lower()) for the date and time words
HasWord(t, w) ==
    LET lt == Lower(t) IN
    CASE w = "tomorrow" -> lt \in {"tomorrow morning", "blood test tomorrow morning", "tomorrow"}
      [] w = "today" -> lt \in {"i want today", "today"}
      [] w = "morning" -> lt \in {"tomorrow morning", "morning please", "blood test tomorrow morning", "morning"}
      [] w = "afternoon" -> lt \in {"afternoon"}
      [] w = "evening" -> lt \in {"evening"}
      [] OTHER -> FALSE

\* re.search(r"(\d{1,3})", text): the first run of one to three digits, -1 when there is none
FirstDigits(t) ==
    CASE t = "32" -> 32
      [] t = "150" -> 150
      [] t = "12 mg road" -> 12
      [] OTHER -> -1

\* any(kw in lower for kw in ["start over","restart","book new","book another","new appointment"])
HasRestartPhrase(t) == Lower(t) \in {"start over"}

\* the text process_user_message works on: a reply id is mapped to its label
\* when it is a key of BUTTON_MAPPINGS, then stripped
ProcessText(body) == Strip(IF body \in ButtonIds THEN BUTTON_MAPPINGS[body] ELSE body)

\* the service keywords of rule_based_extract found in the text: <<category, sub_category>>
ServiceKeywords(t) ==
    LET ut == Strip(Lower(t)) IN
    CASE ut \in {"i need a nurse", "nurse visit"} -> <<"care at home", "nurse visit">>
      [] ut = "care at home" -> <<"care at home", None>>
      [] ut = "urgent medicine" -> <<"medicine delivery", "urgent medicines">>
      [] ut \in {"medicine delivery", "type the medicine", "type_the_medicine"} -> <<"medicine delivery", None>>
      [] ut \in {"blood test tomorrow morning", "blood test"} -> <<"lab test", "blood test">>
      [] ut = "lab test" -> <<"lab test", None>>
      [] OTHER -> <<None, None>>

\* what dateparser.parse (an external library) can answer for the whole text
\* with PREFER_DATES_FROM future; a text with digits may or may not parse as a date
ParseWholeText(t) ==
    LET ut == Strip(Lower(t)) IN
    CASE ut \in {"tomorrow", "tomorrow morning"} -> {TOMORROW}
      [] ut \in {"today"} -> {TODAY}
      [] ut \in {"32", "150", "12 mg road"} -> {None, "D+n"}
      [] OTHER -> {None}

\* the marker test of rule_based_extract: one of the tokens tomorrow, today, next,
\* on, a weekday name occurs in the text, or it holds a one/two digit number
HasDateMarker(t) ==
    LET ut == Strip(Lower(t)) IN
    ut \in {"tomorrow", "tomorrow morning", "today", "i want today", "blood test tomorrow morning",
            "32", "12 mg road", "send doctor's prescription", "send_doctors_prescription"}

----------------------------------------------------------------------------
(* Outbound messages *)

Text(body) == [type |-> "text", body |-> body, ids |-> {}]

\* send_buttons / send_options: one to three options are buttons, more are a list
Options(body, ids) ==
    [type |-> IF Cardinality(ids) > 3 THEN "list" ELSE "button", body |-> body, ids |-> ids]

TimeButtons == Options("Select preferred time:", {"time_morning", "time_afternoon", "time_evening"})
DateButtons == Options("Please select appointment date:", {"date_today", "date_tomorrow", "date_pick"})
MenuButtons == Options("What would you like to book today?", {"care_at_home", "medicine_delivery", "lab_test"})
ConfirmButtons == Options("Confirm booking?", {"confirm_yes", "confirm_no"})
CareOptions == Options("Select a subcategory for Care at Home:", {"nurse_visit", "physiotherapy", "elderly_care", "post_surgery_care"})
MedicineOptions == Options("How would you like to provide the medicine details?", {"send_doctors_prescription", "type_the_medicine"})
LabOptions == Options("Select a subcategory for Lab Test:", {"blood_test", "urine_test", "covid_test", "full_body_checkup"})

\* normalize_cat / normalize_category_for_compare; the categories of the model
\* are already lower case with spaces
normalize_cat(cat) == IF Truthy(cat) THEN cat ELSE ""

\* humanize_response(seed, kind, name, ...): the phrasing is chosen at random among
\* the variants of the kind, so the message is identified by its kind.  Only the
\* greeting templates use {name}: format() raises KeyError when no name is passed
\* and the except branch returns the seed text
humanize_response(seed, kind, name) ==
    IF kind = "greeting" /\ ~Truthy(name) THEN seed
    ELSE IF kind # None THEN kind
    ELSE seed

----------------------------------------------------------------------------
(* The handler.  webhook_handler is one long function of early returns; it  *)
(* is modelled as a chain of stages over a context c:                       *)
(*   c.s      the dict stored in session_data under the sender (NoSession   *)
(*            when there is none); every local name of the code (sess,      *)
(*            prev_entities, entities) that holds a stored dict aliases it  *)
(*   c.out    the outbound messages so far                                  *)
(*   c.rec    the booking record, once built                                *)
(*   c.done   the handler has returned; c.status is what it returned        *)

NoRecord == [built |-> FALSE]

Start(s) == [s |-> s, out |-> <<>>, rec |-> NoRecord, done |-> FALSE, status |-> "ok"]

\* store s, send msgs and return {"status": "ok"}
Return(c, s, msgs) == [c EXCEPT !.s = s, !.out = c.out \o msgs, !.done = TRUE, !.status = "ok"]

\* store s, send msgs and go on with the code below
Continue(c, s, msgs) == [c EXCEPT !.s = s, !.out = c.out \o msgs]

\* return {"status": "ignored"}
Ignore(c) == [c EXCEPT !.done = TRUE, !.status = "ignored"]

\* the completeness test written out at each place that moves to 'confirming':
\* all([date, time, category, sub_category, location, age]) and time not in [None, "", "00:00"]
Complete(s) ==
    /\ \A k \in {"date", "time", "category", "sub_category", "location", "age"} : Truthy(Get(s, k))
    /\ Get(s, "time") \notin {None, "", "00:00"}

\* compose_summary followed by the confirm_summary phrasing, then the two buttons
SummaryAndConfirm(s) == <<Text(humanize_response("", "confirm_summary", Get(s, "name"))), ConfirmButtons>>

\* the sub-category prompt of a category; other is sent for an unknown category
SubCategoryPrompt(cat, other) ==
    CASE normalize_cat(cat) = "care at home" -> <<CareOptions>>
      [] normalize_cat(cat) = "medicine delivery" -> <<MedicineOptions>>
      [] normalize_cat(cat) = "lab test" -> <<LabOptions>>
      [] OTHER -> other

\* is_missing(field) of the button handlers
is_missing(s, field) ==
    LET val == Get(s, field) IN
    val = None \/ val = "" \/ (field = "time" /\ val = "00:00")

RECURSIVE FirstMissing(_, _)
\* the first field of the priority list that is missing, None when there is none
FirstMissing(s, priority) ==
    IF priority = <<>> THEN None
    ELSE IF is_missing(s, Head(priority)) THEN Head(priority)
    ELSE FirstMissing(s, Tail(priority))

\* the message body as the code reads it into user_text
UserText(ev) == IF ev.kind \in {"text", "interactive"} THEN ev.body ELSE ""

\* normalized = (user_text or "").strip().lower()
Normalized(ev) == Lower(Strip(UserText(ev)))

\* an address that ignores the name of the place
LocAddressFromCoordsOnly(ev) == IF ev.loc \in {"named", "coords"} THEN "12.9,77.6" ELSE None

\* the address and coordinates of a location message
LocAddress(ev) ==
    CASE ev.loc = "named" -> "Clinic Rd"
      [] ev.loc = "coords" -> "12.9,77.6"
      [] OTHER -> None

LocCoords(ev) == IF ev.loc \in {"named", "coords"} THEN "12.9,77.6" ELSE None

\* the ask-next-missing chain shared by the location and typed-address branches
\* (time, date, category, sub_category)
LocationStage(c, ev) ==
    IF c.done \/ ev.kind # "location" \/ ~(Truthy(LocAddress(ev)) \/ Truthy(LocCoords(ev))) THEN c
    ELSE
    LET s0 == SessOrEmpty(c.s)
        s1 == [s0 EXCEPT !["location"] = LocAddress(ev),
                         !["location_address"] = LocAddress(ev),
                         !["location_coords"] = LocCoords(ev),
                         !["last_interaction"] = "location"]
        s2 == IF Truthy(Get(s1, "awaiting_address")) THEN Pop(s1, "awaiting_address") ELSE s1
        s3 == IF Get(s2, "awaiting_field") = "location" THEN Put(s2, "awaiting_field", None) ELSE s2
        ack == <<Text(humanize_response("", "ack_location", Get(s3, "name")))>>
    IN
    IF Complete(s3) THEN
        Return(c, Pop(Put(s3, "state", "confirming"), "awaiting_address"), ack \o SummaryAndConfirm(s3))
    ELSE IF ~Truthy(Get(s3, "time")) THEN
        IF Get(s3, "awaiting_field") # None THEN Return(c, s3, ack)
        ELSE Return(c, Put(s3, "awaiting_field", "time"), ack \o <<TimeButtons>>)
    ELSE IF ~Truthy(Get(s3, "date")) THEN
        IF Get(s3, "awaiting_field") # None THEN Return(c, s3, ack)
        ELSE Return(c, Put(s3, "awaiting_field", "date"),
                    ack \o <<Text("Please provide the date for the appointment."), DateButtons>>)
    ELSE IF ~Truthy(Get(s3, "category")) THEN
        Return(c, s3, ack \o <<Text("Which service would you like to book?"), MenuButtons>>)
    ELSE IF ~Truthy(Get(s3, "sub_category")) THEN
        Return(c, s3, ack \o SubCategoryPrompt(Get(s3, "category"), <<Text("Please tell me which sub-service you want.")>>))
    ELSE Return(c, s3, ack)

Affirmative(ev) == Normalized(ev) \in {"yes", "y", "confirm", "ok", "sure"} \/ UserText(ev) = "confirm_yes"

Negative(ev) == Normalized(ev) \in {"no", "cancel", "stop"} \/ UserText(ev) = "confirm_no"

\* the structured record of a confirmed session; datetime.now() is not modelled
BookingRecord(ev, s) ==
    [built |-> TRUE, confirmed_at |-> "now", user_number |-> ev.from, name |-> Get(s, "name"),
     age |-> Get(s, "age"),
     category |-> Get(s, "category"), sub_category |-> Get(s, "sub_category"),
     date |-> Get(s, "date"), time |-> Get(s, "time"),
     location_address |-> Get(s, "location_address"), location_coords |-> Get(s, "location_coords"),
     state |-> Get(s, "state"), last_interaction |-> Get(s, "last_interaction")]

\* whether the yes/no branches take the session to be in the confirming flow:
\* sess and sess.get("state") == "confirming"
InConfirming(s) == s # NoSession /\ Get(s, "state") = "confirming"

\* a confirmation that leaves the session as it is
ConfirmBookingKeepingSession(c, ev) ==
    [Return(c, c.s, <<Text(humanize_response("", "confirmation_yes", Get(c.s, "name")))>>)
        EXCEPT !.rec = BookingRecord(ev, c.s)]

\* "yes" while confirming: the record is built (printed and written to a file),
\* the acknowledgement sent, the session replaced by an empty one
ConfirmBooking(c, ev) ==
    [Return(c, make_empty_session, <<Text(humanize_response("", "confirmation_yes", Get(c.s, "name")))>>)
        EXCEPT !.rec = BookingRecord(ev, c.s)]

\* a "yes" outside the confirming flow that also starts an empty session
AffirmativeOutsideStartingSession(c) == Return(c, make_empty_session, <<MenuButtons>>)

\* "yes" outside the confirming flow: the top-level menu, nothing stored
AffirmativeOutside(c) == Return(c, c.s, <<MenuButtons>>)

\* a cancellation that resets the fields but stays in the confirming flow
CancelBookingKeepingState(c) ==
    Return(c, Put(make_empty_session, "state", "confirming"),
           <<Text(humanize_response("", "confirmation_no", Get(c.s, "name")))>>)

\* "no" while confirming: the acknowledgement, the session replaced by an empty one
CancelBooking(c) ==
    Return(c, make_empty_session, <<Text(humanize_response("", "confirmation_no", Get(c.s, "name")))>>)

\* a "no" outside the confirming flow that also drops the pending question
NegativeOutsideDroppingQuestion(c) ==
    Return(c, IF c.s = NoSession THEN c.s ELSE Put(c.s, "awaiting_field", None),
           <<Text("Okay - if you need anything later, just say hi.")>>)

\* "no" outside the confirming flow: the close-out line, nothing stored
NegativeOutside(c) == Return(c, c.s, <<Text("Okay - if you need anything later, just say hi.")>>)

ConfirmStage(c, ev) ==
    IF c.done THEN c
    ELSE IF Affirmative(ev) THEN
        IF InConfirming(c.s) THEN ConfirmBooking(c, ev) ELSE AffirmativeOutside(c)
    ELSE IF Negative(ev) THEN
        IF InConfirming(c.s) THEN CancelBooking(c) ELSE NegativeOutside(c)
    ELSE c

\* not user_number or (not user_text and not has_media)
MissingStage(c, ev) ==
    IF c.done THEN c
    ELSE IF UserText(ev) = "" /\ ev.kind # "media" THEN Ignore(c)
    ELSE c

GREETING_TEXTS == {"hi", "hello", "hey", "hey warmy"}

\* user_name or ""
NameOrEmpty(n) == IF Truthy(n) THEN n ELSE ""

GreetingStage(c, ev) ==
    IF c.done THEN c
    ELSE IF ev.kind # "interactive" /\ Normalized(ev) \in GREETING_TEXTS THEN
        Return(c, Put(make_empty_session, "last_interaction", "greeting"),
               <<Text(humanize_response("", "greeting", NameOrEmpty(ev.contact))), MenuButtons>>)
    ELSE c

TestStage(c, ev) ==
    IF c.done THEN c
    ELSE IF Lower(UserText(ev)) = "test" THEN Return(c, c.s, <<Text("Bot is working fine!")>>)
    ELSE c

\* sanitize_text_value_local: zero-width characters removed, whitespace collapsed, stripped
\* re.sub(r'[\u200B-\u200F\uFEFF]', '', s)
WithoutZeroWidth(t) == IF t = ZWSP THEN "" ELSE t

\* zero-width characters removed, white space collapsed and stripped
sanitize_text_value_local(v) == IF v = None THEN None ELSE Strip(WithoutZeroWidth(v))

TypedAddressStage(c, ev) ==
    IF c.done \/ ~(c.s # NoSession /\ Truthy(Get(c.s, "awaiting_address")) /\ ev.kind = "text") THEN c
    ELSE IF Strip(UserText(ev)) = "" THEN
        Return(c, c.s, <<Text("I didn't catch that. Please type your address or share your location.")>>)
    ELSE
    LET addr == sanitize_text_value_local(Strip(UserText(ev)))
        s1 == [c.s EXCEPT !["location"] = addr,
                          !["location_address"] = addr,
                          !["location_coords"] = None,
                          !["awaiting_address"] = False]
        s2 == IF Get(s1, "awaiting_field") = "location" THEN Put(s1, "awaiting_field", None) ELSE s1
        s3 == Put(s2, "last_interaction", "typed_address")
        ack == <<Text(humanize_response("", "ack_location", Get(s3, "name")))>>
    IN
    IF Complete(s3) THEN Return(c, Put(s3, "state", "confirming"), ack \o SummaryAndConfirm(s3))
    ELSE IF ~Truthy(Get(s3, "time")) THEN
        IF Get(s3, "awaiting_field") # None THEN Return(c, s3, ack)
        ELSE Return(c, Put(s3, "awaiting_field", "time"), ack \o <<TimeButtons>>)
    ELSE IF ~Truthy(Get(s3, "date")) THEN
        Return(c, s3, ack \o <<Text("Please provide the date for the appointment."), DateButtons>>)
    ELSE IF ~Truthy(Get(s3, "category")) THEN
        Return(c, s3, ack \o <<Text("Which service would you like to book?"), MenuButtons>>)
    ELSE IF ~Truthy(Get(s3, "sub_category")) THEN
        Return(c, s3, ack \o SubCategoryPrompt(Get(s3, "category"), <<Text("Please tell me which sub-service you want.")>>))
    ELSE Continue(c, s3, ack)

\* str(age_val) for the ages the texts of the model hold
AgeStr(n) ==
    CASE n = 32 -> "32"
      [] n = 12 -> "12"
      [] n = 150 -> "150"
      [] OTHER -> "?"

\* the range test of the typed-age branch (an age is refused when it holds)
AgeOutOfRange(n) == n <= 0 \/ n > 120

\* prev_entities is session_data.get(user) or, when there is none, a fresh empty
\* session whose awaiting_field is None
TypedAgeStage(c, ev) ==
    IF c.done \/ ~(Get(SessOrEmpty(c.s), "awaiting_field") = "age" /\ ev.kind = "text") THEN c
    ELSE
    LET n == FirstDigits(Strip(UserText(ev))) IN
    IF n = -1 THEN
        Return(c, c.s, <<Text("I didn't catch that. Please type the age as a number (e.g. 32).")>>)
    ELSE IF AgeOutOfRange(n) THEN
        Return(c, c.s, <<Text("That age looks off - please enter an age between 1 and 120.")>>)
    ELSE
    LET s1 == [c.s EXCEPT !["age"] = AgeStr(n),
                          !["awaiting_field"] = None,
                          !["last_interaction"] = "typed_age"]
        ack == <<Text("Thanks - noted age.")>>
    IN
    IF Complete(s1) THEN Return(c, Put(s1, "state", "confirming"), ack \o SummaryAndConfirm(s1))
    ELSE Continue(c, s1, ack)

\* mapped_text: BUTTON_MAPPINGS.get(user_text, user_text), stripped and lowered,
\* then the first of the prefixes date_, time_, confirm_, btn_ is cut off
MappedText(ev) ==
    LET t == UserText(ev)
        m == Lower(Strip(IF t \in ButtonIds THEN BUTTON_MAPPINGS[t] ELSE t))
    IN
    CASE m = "confirm_yes" -> "yes"
      [] m = "confirm_no" -> "no"
      [] OTHER -> m

MedicineSubs == {"send doctor's prescription", "type the medicine"}

\* a name for the awaited upload that the handler does not assign
PrescriptionAwaitedMisnamed == "upload"

\* the value of awaiting_field while the prescription is awaited
PrescriptionAwaited == "prescription_upload"

MedicineSubStage(c, ev) ==
    IF c.done \/ MappedText(ev) \notin MedicineSubs THEN c
    ELSE
    LET s1 == Put(SessOrEmpty(c.s), "sub_category", MappedText(ev)) IN
    IF MappedText(ev) = "send doctor's prescription" THEN
        Return(c, Put(s1, "awaiting_field", PrescriptionAwaited),
               <<Text("Please send the prescription as a PDF or image.")>>)
    ELSE
        Return(c, Put(s1, "awaiting_field", "medicine_text"),
               <<Text("Please type the medicine name(s) you need.")>>)

\* the session a category selection stores
SelectCategory(s, cat) == [s EXCEPT !["category"] = cat, !["awaiting_field"] = "sub_category"]

CategoryStage(c, ev) ==
    IF c.done \/ MappedText(ev) \notin {"care at home", "medicine delivery", "lab test"} THEN c
    ELSE Return(c, SelectCategory(SessOrEmpty(c.s), MappedText(ev)), SubCategoryPrompt(MappedText(ev), <<>>))

CareSubs == {"nurse visit", "physiotherapy", "elderly care", "post surgery care"}
LabSubs == {"blood test", "urine test", "covid test", "full body checkup"}

\* the category a sub-category selection infers: sess.setdefault("category", ...)
InferCategory(s, sub) ==
    IF sub \in CareSubs THEN SetDefault(s, "category", "care at home")
    ELSE SetDefault(s, "category", "lab test")

\* the prompt for the next missing field of date, time, age, location after a
\* sub-category, medicine text or prescription was stored; setAddr tells whether
\* the branch also sets awaiting_address when it asks for the location
AskNextAfterService(c, s, ack, setAddr) ==
    LET next_field == FirstMissing(s, <<"date", "time", "age", "location">>) IN
    CASE next_field = "date" -> Return(c, Put(s, "awaiting_field", "date"), ack \o <<DateButtons>>)
      [] next_field = "time" -> Return(c, Put(s, "awaiting_field", "time"), ack \o <<TimeButtons>>)
      [] next_field = "age" ->
            Return(c, Put(s, "awaiting_field", "age"), ack \o <<Text("Please type the patient's age (in years).")>>)
      [] next_field = "location" ->
            Return(c, IF setAddr THEN Put(Put(s, "awaiting_field", "location"), "awaiting_address", True)
                      ELSE Put(s, "awaiting_field", "location"),
                   ack \o <<Text("Please share your location or type your address.")>>)
      [] OTHER -> Continue(c, s, ack)

SubCategoryStage(c, ev) ==
    IF c.done \/ MappedText(ev) \notin (CareSubs \cup LabSubs) THEN c
    ELSE
    LET s1 == Put(InferCategory(SessOrEmpty(c.s), MappedText(ev)), "sub_category", MappedText(ev))
        s2 == IF Get(s1, "awaiting_field") = "sub_category" THEN Put(s1, "awaiting_field", None) ELSE s1
    IN AskNextAfterService(c, s2, <<>>, TRUE)

MedicineTextStage(c, ev) ==
    IF c.done \/ ev.kind = "interactive" THEN c
    ELSE IF ~(Get(SessOrEmpty(c.s), "awaiting_field") = "medicine_text" /\ Strip(UserText(ev)) # "") THEN c
    ELSE
    LET s1 == [c.s EXCEPT !["medicine_text"] = sanitize_text_value_local(UserText(ev)),
                          !["awaiting_field"] = None]
        s2 == IF ~Truthy(Get(s1, "category")) THEN Put(s1, "category", "medicine delivery") ELSE s1
        s3 == IF ~Truthy(Get(s2, "sub_category")) THEN Put(s2, "sub_category", "type the medicine") ELSE s2
    IN AskNextAfterService(c, s3, <<Text(humanize_response("Medicine details noted.", "friendly_ack", Get(s3, "name")))>>, FALSE)

MediaStage(c, ev) ==
    IF c.done \/ ev.kind # "media" THEN c
    ELSE IF Get(SessOrEmpty(c.s), "awaiting_field") # "prescription_upload" THEN c
    ELSE
    LET s1 == [c.s EXCEPT !["prescription_uploaded"] = True,
                          !["prescription_media_id"] = "media-id",
                          !["awaiting_field"] = None]
        s2 == IF ~Truthy(Get(s1, "category")) THEN Put(s1, "category", "medicine delivery") ELSE s1
        s3 == IF ~Truthy(Get(s2, "sub_category")) THEN Put(s2, "sub_category", "send doctor's prescription") ELSE s2
    IN AskNextAfterService(c, s3, <<Text("Thanks - prescription received.")>>, FALSE)

AddressButtonsStage(c, ev) ==
    IF c.done THEN c
    ELSE IF MappedText(ev) = "type_address" THEN
        Return(c, [SessOrEmpty(c.s) EXCEPT !["awaiting_address"] = True,
                                           !["last_interaction"] = "awaiting_address_prompt"],
               <<Text("Please type your address now, or share location using WhatsApp's location button.")>>)
    ELSE IF MappedText(ev) = "share_location" THEN
        Return(c, c.s, <<Text("Please use the attachment -> Location -> Send to share your location.")>>)
    ELSE IF MappedText(ev) \in {"pick", "pick_date"} THEN
        Return(c, Put(SessOrEmpty(c.s), "awaiting_field", "date"),
               <<Text("Please type the appointment date (YYYY-MM-DD), or say 'today' / 'tomorrow'.")>>)
    ELSE c

\* interactive_date_map: today and tomorrow evaluated at datetime.now()
interactive_date_map == [m \in {"today", "tomorrow"} |-> IF m = "today" THEN TODAY ELSE TOMORROW]

interactive_time_map ==
    [m \in {"morning", "afternoon", "evening"} |->
        CASE m = "morning" -> "09:00" [] m = "afternoon" -> "15:00" [] m = "evening" -> "18:00"]

AskLocation == Text("Please share your location or type your address so we can assign the nearest staff.")
AskAge == Text("Please type the patient's age (in years).")

\* what the DATE handler and the free-text fast path do once next_field is known
\* (lines 753-822 and 976-1021 are the same chain); atEnd is the result when no
\* field of the priority list is missing
AskNextAfterDate(c, s, ack, next_field, asked, atEnd) ==
    LET af == Get(s, "awaiting_field") IN
    CASE next_field = "time" ->
            IF af = None THEN Return(c, Put(s, "awaiting_field", "time"), ack \o <<TimeButtons>>)
            ELSE Return(c, s, ack)
      [] next_field = "age" ->
            IF af = None THEN Return(c, Put(s, "awaiting_field", "age"), ack \o <<AskAge>>)
            ELSE Return(c, s, ack)
      [] next_field = "location" ->
            IF ~Truthy(Get(s, "awaiting_address")) /\ af = None THEN
                Return(c, [s EXCEPT !["awaiting_address"] = True,
                                    !["last_interaction"] = asked,
                                    !["awaiting_field"] = "location"], ack \o <<AskLocation>>)
            ELSE Return(c, s, ack)
      [] next_field = "category" ->
            IF af = None THEN Return(c, Put(s, "awaiting_field", "category"), ack \o <<MenuButtons>>)
            ELSE Return(c, s, ack)
      [] next_field = "sub_category" ->
            Return(c, Put(s, "awaiting_field", "sub_category"),
                   ack \o SubCategoryPrompt(Get(s, "category"),
                            IF af = None THEN <<Text("Please tell me which sub-service you want.")>> ELSE <<>>))
      [] OTHER -> atEnd

DateStage(c, ev) ==
    IF c.done \/ MappedText(ev) \notin DOMAIN interactive_date_map THEN c
    ELSE
    LET s0 == SessOrEmpty(c.s)
        s1 == [s0 EXCEPT !["date"] = interactive_date_map[MappedText(ev)],
                         !["last_interaction"] = "date_selected"]
        s2 == IF Get(s1, "awaiting_field") = "date" THEN Put(s1, "awaiting_field", None) ELSE s1
        ack == <<Text("Date set.")>>
        next_field == FirstMissing(s2, <<"time", "age", "location", "category", "sub_category">>)
        atEnd ==
            IF /\ \A k \in {"date", "time", "category", "sub_category", "location"} : Truthy(Get(s2, k))
               /\ Get(s2, "time") \notin {None, "", "00:00"}
            THEN Return(c, [s2 EXCEPT !["state"] = "confirming", !["awaiting_field"] = None],
                        ack \o SummaryAndConfirm(s2))
            ELSE Return(c, s2, ack)
    IN AskNextAfterDate(c, s2, ack, next_field, "asked_for_address", atEnd)

TimeStage(c, ev) ==
    IF c.done \/ MappedText(ev) \notin DOMAIN interactive_time_map THEN c
    ELSE
    LET s0 == SessOrEmpty(c.s)
        s1 == [s0 EXCEPT !["time"] = interactive_time_map[MappedText(ev)],
                         !["last_interaction"] = "time_selected",
                         !["awaiting_field"] = None]
        ack == <<Text("Got it - selected.")>>
        next_field == FirstMissing(s1, <<"date", "age", "location", "category", "sub_category">>)
    IN
    CASE next_field = "date" -> Return(c, Put(s1, "awaiting_field", "date"), ack \o <<DateButtons>>)
      [] next_field = "age" -> Return(c, Put(s1, "awaiting_field", "age"), ack \o <<AskAge>>)
      [] next_field = "location" ->
            IF ~Truthy(Get(s1, "awaiting_address")) THEN
                Return(c, [s1 EXCEPT !["awaiting_address"] = True,
                                     !["last_interaction"] = "asked_for_address_after_time",
                                     !["awaiting_field"] = "location"], ack \o <<AskLocation>>)
            ELSE Return(c, s1, ack)
      [] next_field = "category" -> Return(c, Put(s1, "awaiting_field", "category"), ack \o <<MenuButtons>>)
      [] next_field = "sub_category" ->
            Return(c, Put(s1, "awaiting_field", "sub_category"), ack \o SubCategoryPrompt(Get(s1, "category"), <<>>))
      [] OTHER ->
            IF \A k \in {"date", "time", "category", "sub_category", "location", "age"} : Truthy(Get(s1, k))
            THEN Return(c, [s1 EXCEPT !["state"] = "confirming", !["awaiting_field"] = None],
                        ack \o SummaryAndConfirm(s1))
            ELSE Return(c, s1, ack)

\* the date and time words the in-handler fast path finds in the text
DateChoice(t) ==
    IF HasWord(t, "tomorrow") THEN TOMORROW
    ELSE IF HasWord(t, "today") THEN TODAY
    ELSE None

TimeChoice(t) ==
    IF HasWord(t, "morning") THEN "09:00"
    ELSE IF HasWord(t, "afternoon") THEN "15:00"
    ELSE IF HasWord(t, "evening") THEN "18:00"
    ELSE None

\* the fields the fast path stores from the words it found
StoreDateTimeWords(s, date_choice, time_choice) ==
    LET s1 == IF date_choice # None
              THEN [s EXCEPT !["date"] = date_choice,
                             !["awaiting_field"] = IF @ = "date" THEN None ELSE @]
              ELSE s
        s2 == IF time_choice # None
              THEN [s1 EXCEPT !["time"] = time_choice,
                              !["awaiting_field"] = IF @ = "time" THEN None ELSE @]
              ELSE s1
    IN Put(s2, "last_interaction", "free_text_datetime")

FastPathStage(c, ev) ==
    LET date_choice == DateChoice(UserText(ev))
        time_choice == TimeChoice(UserText(ev))
    IN
    IF c.done \/ (date_choice = None /\ time_choice = None) THEN c
    ELSE
    LET s1 == StoreDateTimeWords(SessOrEmpty(c.s), date_choice, time_choice)
        priority == IF date_choice # None /\ time_choice = None
                    THEN <<"time", "age", "location", "category", "sub_category">>
                    ELSE <<"age", "location", "category", "sub_category">>
    IN AskNextAfterDate(c, s1, <<>>, FirstMissing(s1, priority), "asked_for_address_after_free_text",
                        Continue(c, s1, <<>>))

----------------------------------------------------------------------------
(* src/llm_utils.py: normalisation, the rule-based extractor and the merge *)

\* the table with the night an hour late
friendly_times_late ==
    [w \in {"morning", "afternoon", "evening", "night"} |->
        CASE w = "morning" -> "09:00" [] w = "afternoon" -> "15:00"
          [] w = "evening" -> "18:00" [] w = "night" -> "21:00"]

friendly_times ==
    [w \in {"morning", "afternoon", "evening", "night"} |->
        CASE w = "morning" -> "09:00" [] w = "afternoon" -> "15:00"
          [] w = "evening" -> "18:00" [] w = "night" -> "20:00"]

\* dateparser.parse(date phrase).strftime("%Y-%m-%d"); None when it does not parse
ParseDate(d) ==
    CASE d \in {TODAY, TOMORROW, "D+n"} -> d
      [] d = "today" -> TODAY
      [] d = "tomorrow" -> TOMORROW
      [] OTHER -> None

\* dateparser.parse(time phrase).strftime("%H:%M"); None when it does not parse
ParseTime(t) ==
    CASE t \in {"09:00", "15:00", "18:00", "20:00", "00:00"} -> t
      [] t = "3pm" -> "15:00"
      [] OTHER -> None

\* a time-of-day word among the words of a date phrase, None when there is none
FriendlyTokenIn(d) ==
    CASE d = "tomorrow morning" -> "morning"
      [] d = "evening" -> "evening"
      [] OTHER -> None

\* the date phrase with that word taken out
WithoutToken(d) ==
    CASE d = "tomorrow morning" -> "tomorrow"
      [] OTHER -> ""

\* a normalisation that dates a time given alone
normalize_date_time_dated(date_str, time_str) ==
    IF ~Truthy(date_str) /\ ~Truthy(time_str) THEN <<None, None>>
    ELSE IF ~Truthy(date_str) THEN
        <<TODAY, IF Lower(time_str) \in DOMAIN friendly_times THEN friendly_times[Lower(time_str)] ELSE time_str>>
    ELSE <<date_str, time_str>>

normalize_date_time(date_str, time_str) ==
    IF ~Truthy(date_str) /\ ~Truthy(time_str) THEN <<None, None>>
    ELSE IF Truthy(time_str) /\ Lower(time_str) \in DOMAIN friendly_times THEN
        <<IF Truthy(date_str) THEN ParseDate(date_str) ELSE None, friendly_times[Lower(time_str)]>>
    ELSE IF Truthy(date_str) /\ FriendlyTokenIn(Lower(date_str)) # None THEN
        <<IF WithoutToken(Lower(date_str)) # "" THEN ParseDate(WithoutToken(Lower(date_str))) ELSE None,
          friendly_times[FriendlyTokenIn(Lower(date_str))]>>
    ELSE IF Truthy(date_str) /\ Truthy(time_str) THEN
        IF ParseDate(date_str) = None \/ ParseTime(time_str) = None THEN <<date_str, time_str>>
        ELSE <<ParseDate(date_str), ParseTime(time_str)>>
    ELSE IF Truthy(date_str) THEN
        IF ParseDate(date_str) = None THEN <<date_str, None>> ELSE <<ParseDate(date_str), None>>
    ELSE
        IF ParseTime(time_str) = None THEN <<None, time_str>> ELSE <<None, ParseTime(time_str)>>

\* the keys process_user_message makes sure its result has
ExpectedKeys ==
    {"name", "age", "date", "time", "category", "sub_category", "location", "location_coords",
     "location_address", "awaiting_address", "confirmed", "greeted", "state"}

\* the default of an expected key
KeyDefault(k) == IF k \in {"confirmed", "greeted", "awaiting_address"} THEN False ELSE None

\* the date rule_based_extract detects, given dateparser's answer dp for the text
DetectedDate(t, dp) ==
    IF dp = None THEN None
    ELSE IF HasDateMarker(t) \/ dp # TODAY THEN dp
    ELSE None

\* rule_based_extract: [found |-> FALSE] stands for its None (nothing new was
\* found); else the entities are a copy of the previous ones with the gaps filled
rule_based_extract(t, previous_entities, dp) ==
    LET kw == ServiceKeywords(t)
        detected == [k \in {"category", "sub_category", "date", "time"} |->
                        CASE k = "category" -> kw[1]
                          [] k = "sub_category" -> kw[2]
                          [] k = "date" -> DetectedDate(t, dp)
                          [] k = "time" -> TimeChoice(t)]
        fills == {k \in DOMAIN detected : detected[k] # None /\ ~Truthy(Get(previous_entities, k))}
    IN
    IF t = "" \/ fills = {} THEN [found |-> FALSE, entities |-> NoSession]
    ELSE [found |-> TRUE,
          entities |-> [k \in Keys |-> IF k \in fills THEN detected[k] ELSE previous_entities[k]]]

\* the entities an extractor proposes count only where they are not None or ""
Proposed(v) == v \notin {Absent, None, ""}

\* one pass of the merge loop: value v is taken for key k when it is proposed
\* and the merged dict has nothing truthy under k
FillGap(mergedValue, v) == IF Proposed(v) /\ ~Truthy(mergedValue) THEN v ELSE mergedValue

\* a merge that lets the LLM's entities fill the gaps before the rule-based ones
MergeEntitiesLlmFirst(previous_entities, rb_entities, clean_llm) ==
    [k \in Keys |-> FillGap(FillGap(previous_entities[k], clean_llm[k]), rb_entities[k])]

\* the merge of process_user_message: previous entities, then the rule-based
\* ones, then the LLM's
MergeEntities(previous_entities, rb_entities, clean_llm) ==
    [k \in Keys |-> FillGap(FillGap(previous_entities[k], rb_entities[k]), clean_llm[k])]

\* the allowed-sub-category rule applied to the merged entities
EnforceAllowedSub(merged) ==
    LET cat_norm == normalize_cat(Get(merged, "category")) IN
    IF /\ Truthy(Get(merged, "category"))
       /\ cat_norm \in DOMAIN CATEGORY_MAP
       /\ Truthy(Get(merged, "sub_category"))
       /\ Lower(Strip(Get(merged, "sub_category"))) \notin CATEGORY_MAP[cat_norm]
    THEN Put(merged, "sub_category", None)
    ELSE merged

\* the entities of the restart branch
RestartEntities ==
    [k \in Keys |->
        CASE k = "greeted" -> True
          [] k \in {"awaiting_address", "confirmed"} -> False
          [] k \in ExpectedKeys -> None
          [] OTHER -> Absent]

\* rb["entities"] after its date and time were normalised and its keys completed
NormalisedRb(rb) ==
    LET WithDateTime(n) ==
            [k \in Keys |->
                CASE k = "date" -> n[1]
                  [] k = "time" -> n[2]
                  [] k \in ExpectedKeys /\ rb[k] = Absent -> KeyDefault(k)
                  [] OTHER -> rb[k]]
    IN WithDateTime(normalize_date_time(Get(rb, "date"), Get(rb, "time")))

\* a fallback that is not labelled as a general query
conversational_answer_unlabelled(previous_entities) ==
    [intent |-> "appointment_request", entities |-> previous_entities, response |-> "fallback reply"]

\* conversational_answer: the short reply used when the extraction call fails,
\* over the entities it was given
conversational_answer(previous_entities) ==
    [intent |-> "general_query", entities |-> previous_entities, response |-> "fallback reply"]

\* process_user_message(user_text, previous_entities) for one answer llm of the
\* extraction service and one answer dp of dateparser: [intent, entities, response]
process_user_message(body, previous_entities, llm, dp) ==
    LET t == ProcessText(body)
        \* rb["entities"] normalised, or nothing when rule_based_extract found nothing
        RbEntities(rb) == IF rb.found THEN NormalisedRb(rb.entities) ELSE NoSession
        clean_llm == [k \in Keys |-> IF k \in DOMAIN llm.entities THEN llm.entities[k] ELSE Absent]
        \* sanitize text fields
        Sanitised(merged) ==
            [k \in Keys |->
                IF k \in {"category", "sub_category", "location", "name"} /\ Truthy(merged[k])
                THEN sanitize_text_value_local(merged[k]) ELSE merged[k]]
        \* normalize date/time, ensure expected keys
        WithDateTime(merged, n) ==
            [k \in Keys |->
                CASE k = "date" -> n[1]
                  [] k = "time" -> n[2]
                  [] k \in ExpectedKeys /\ merged[k] = Absent -> KeyDefault(k)
                  [] k = "awaiting_address" /\ merged[k] = None -> False
                  [] OTHER -> merged[k]]
        Normalised(merged) ==
            WithDateTime(merged, normalize_date_time(Get(merged, "date"), Get(merged, "time")))
        merged3 ==
            Normalised(EnforceAllowedSub(Sanitised(
                MergeEntities(previous_entities, RbEntities(rule_based_extract(t, previous_entities, dp)),
                              clean_llm))))
    IN
    IF Lower(t) \in {"hi", "hello", "hey", "hey warmy"} THEN
        [intent |-> "greeting", entities |-> Put(previous_entities, "greeted", True), response |-> "greeting"]
    ELSE IF HasRestartPhrase(t) THEN
        [intent |-> "start_over", entities |-> RestartEntities, response |-> "No problem! Let's start fresh."]
    ELSE IF llm.kind = "fail" THEN conversational_answer(previous_entities)
    ELSE
        [intent |-> llm.intent, entities |-> merged3, response |-> "extractor reply"]

----------------------------------------------------------------------------
(* The extractor path of webhook_handler (lines 1023-1250) *)

\* k is in the list `missing`: the key is in the dict and its value is falsy
InMissing(ent, k) == ent[k] # Absent /\ ~Truthy(ent[k])

\* clean_entities merged over the stored session: {**existing, **clean_entities},
\* then the text fields sanitised, the contact name filled in, the defaults set
MergeIntoSession(existing, entities, contact) ==
    LET merged_entities == [k \in Keys |-> IF Proposed(entities[k]) THEN entities[k] ELSE existing[k]]
        Sanitised(m) ==
            [k \in Keys |->
                IF k \in {"category", "sub_category", "location", "name"} /\ m[k] \notin {Absent, None}
                THEN sanitize_text_value_local(m[k]) ELSE m[k]]
        Named(m) == IF ~Truthy(Get(m, "name")) /\ Truthy(contact) THEN Put(m, "name", contact) ELSE m
        Defaulted(m) == SetDefault(SetDefault(m, "greeted", False), "confirmed", False)
    IN Put(Defaulted(Named(Sanitised(merged_entities))), "last_interaction", "llm_processed")

\* the 'today' shortcut
TodayShortcut(c, s, pre) ==
    LET s1 == [s EXCEPT !["date"] = TODAY, !["awaiting_field"] = None] IN
    IF ~Truthy(Get(s1, "time")) THEN
        Return(c, s1, pre \o <<Text("Sure - which time today works for you?"), TimeButtons>>)
    ELSE Return(c, Put(s1, "state", "confirming"), pre \o SummaryAndConfirm(s1))

\* the final chain that asks exactly one missing thing
AskOneMissing(c, entities, pre, reply_sent, reply) ==
    LET af == Get(entities, "awaiting_field")
        cat == normalize_cat(Get(entities, "category"))
    IN
    IF InMissing(entities, "date") \/ ~Truthy(Get(entities, "date")) THEN
        IF af = None THEN
            Return(c, Put(entities, "awaiting_field", "date"),
                   pre \o <<Text("Please provide the date for the appointment."), DateButtons>>)
        ELSE Return(c, entities, pre)
    ELSE IF InMissing(entities, "time") \/ ~Truthy(Get(entities, "time")) \/ Get(entities, "time") = "00:00" THEN
        IF af = None THEN Return(c, Put(entities, "awaiting_field", "time"), pre \o <<TimeButtons>>)
        ELSE Return(c, entities, pre)
    ELSE IF InMissing(entities, "age") \/ ~Truthy(Get(entities, "age")) THEN
        IF af = None THEN Return(c, Put(entities, "awaiting_field", "age"), pre \o <<AskAge>>)
        ELSE Return(c, entities, pre)
    ELSE IF InMissing(entities, "category") THEN
        IF af = None THEN
            Return(c, Put(entities, "awaiting_field", "category"),
                   pre \o (IF reply_sent THEN <<>> ELSE <<Text("Which service would you like to book?")>>)
                       \o <<MenuButtons>>)
        ELSE Return(c, entities, pre)
    ELSE IF InMissing(entities, "sub_category") THEN
        IF cat \in DOMAIN CATEGORY_MAP THEN
            Return(c, Put(entities, "awaiting_field", "sub_category"), pre \o SubCategoryPrompt(cat, <<>>))
        ELSE IF af = None THEN
            Return(c, Put(entities, "awaiting_field", "sub_category"),
                   pre \o <<Text("Please tell me which sub-service you want.")>>)
        ELSE Return(c, entities, pre)
    ELSE IF ~Truthy(Get(entities, "location")) THEN
        IF ~Truthy(Get(entities, "awaiting_address")) /\ af = None THEN
            Return(c, [entities EXCEPT !["awaiting_address"] = True,
                                       !["last_interaction"] = "asked_for_address",
                                       !["awaiting_field"] = "location"], pre \o <<AskLocation>>)
        ELSE Return(c, entities, pre)
    ELSE IF Complete(entities) THEN
        Return(c, [Pop(entities, "awaiting_address") EXCEPT !["state"] = "confirming",
                                                           !["last_interaction"] = "asked_to_confirm",
                                                           !["awaiting_field"] = None],
               pre \o SummaryAndConfirm(entities))
    ELSE Return(c, entities, pre \o <<Text(reply)>>)

LlmStage(c, ev, llm, dp) ==
    IF c.done THEN c
    ELSE IF ev.kind = "interactive" /\ MappedText(ev) \in {"morning", "afternoon", "evening", "today", "tomorrow"}
    THEN Return(c, c.s, <<>>)
    ELSE
    LET \* the code after the merge, for the result of process_user_message and
        \* the merged entities now stored as the session
        Respond(result, entities) ==
            LET intent == result.intent
                category == Get(entities, "category")
                sub_category == Get(entities, "sub_category")
                reply_sent == intent = "general_query"
                pre == IF reply_sent THEN <<Text(result.response)>> ELSE <<>>
            IN
            IF HasWord(UserText(ev), "today") /\ (Truthy(category) \/ Truthy(sub_category)) THEN
                TodayShortcut(c, entities, pre)
            ELSE IF intent = "greeting" /\ ~Truthy(Get(entities, "already_greeted")) THEN
                Return(c, Put(entities, "already_greeted", True),
                       pre \o <<Text(humanize_response("", "greeting",
                                                       IF Truthy(Get(entities, "name")) THEN Get(entities, "name")
                                                       ELSE ev.contact)),
                                MenuButtons>>)
            ELSE IF Truthy(category) /\ ~Truthy(sub_category) THEN
                Return(c, entities, pre \o SubCategoryPrompt(category, <<Text(result.response)>>))
            ELSE IF ~Truthy(category) /\ ~(intent = "greeting" \/ Truthy(Get(entities, "greeted"))) THEN
                Return(c, entities, IF reply_sent THEN pre ELSE <<Text(result.response)>>)
            ELSE AskOneMissing(c, entities, pre, reply_sent, result.response)
        Merge(result) == Respond(result, MergeIntoSession(c.s, result.entities, ev.contact))
    IN Merge(process_user_message(UserText(ev), SessOrEmpty(c.s), llm, dp))

\* the handler up to the call of the extractor
BeforeExtractor(s, ev) ==
    FastPathStage(TimeStage(DateStage(AddressButtonsStage(MediaStage(MedicineTextStage(
        SubCategoryStage(CategoryStage(MedicineSubStage(TypedAgeStage(TypedAddressStage(
            TestStage(GreetingStage(MissingStage(ConfirmStage(LocationStage(Start(s), ev), ev), ev), ev), ev),
        ev), ev), ev), ev), ev), ev), ev), ev), ev), ev), ev)

\* webhook_handler on one message, after the duplicate check
Handle(s, ev, llm, dp) == LlmStage(BeforeExtractor(s, ev), ev, llm, dp)

----------------------------------------------------------------------------
(* The environment: inbound messages and the answers of the extraction service *)

TextEvent(u, id, contact, body) == [from |-> u, id |-> id, kind |-> "text", body |-> body, contact |-> contact, loc |-> "none"]
ReplyEvent(u, id, contact, body) == [from |-> u, id |-> id, kind |-> "interactive", body |-> body, contact |-> contact, loc |-> "none"]
LocationEvent(u, id, contact, loc) == [from |-> u, id |-> id, kind |-> "location", body |-> "", contact |-> contact, loc |-> loc]
MediaEvent(u, id, contact) == [from |-> u, id |-> id, kind |-> "media", body |-> "", contact |-> contact, loc |-> "none"]

\* the display name the channel reports for a sender (None when it reports none)
ContactName(u) == IF u = "u1" THEN "Ann Lee" ELSE None

\* every message a user can send in the model
EventsOf(u, ids) ==
    UNION {
        {TextEvent(u, id, ContactName(u), b) : b \in Texts}
        \cup {ReplyEvent(u, id, ContactName(u), b) : b \in ReplyIds}
        \cup {LocationEvent(u, id, ContactName(u), l) : l \in {"named", "coords", "empty"}}
        \cup {MediaEvent(u, id, ContactName(u))}
        : id \in ids}

\* the fields the extraction prompt asks the service for
LlmFields == {"date", "time", "category", "sub_category", "location", "name", "age"}

Nothing == [k \in LlmFields |-> None]

\* the sparse entity updates the service answers with in the model
LlmEntities ==
    LET full == [date |-> TODAY, time |-> "18:00", category |-> "lab test", sub_category |-> "blood test",
                 location |-> "Home", name |-> None, age |-> "40"]
    IN
    {Nothing,
     [Nothing EXCEPT !["category"] = "care at home", !["sub_category"] = "urgent medicines"],
     [Nothing EXCEPT !["category"] = "dental", !["sub_category"] = "cleaning"],
     [Nothing EXCEPT !["age"] = "200", !["date"] = "someday"],
     [Nothing EXCEPT !["date"] = "tomorrow", !["time"] = "morning", !["category"] = "lab test",
                     !["sub_category"] = "blood test"],
     full,
     [full EXCEPT !["date"] = None],
     [full EXCEPT !["time"] = "00:00", !["sub_category"] = None]}

NoLlm == [kind |-> "none", intent |-> "none", entities |-> Nothing]

\* the service fails (exception, timeout, no JSON in the answer) or answers
LlmResults ==
    {[kind |-> "fail", intent |-> "none", entities |-> Nothing]}
    \cup {[kind |-> "ok", intent |-> "appointment_request", entities |-> e] : e \in LlmEntities}
    \cup {[kind |-> "ok", intent |-> i, entities |-> Nothing] : i \in {"general_query", "greeting"}}

----------------------------------------------------------------------------
(* State machine *)

\* process_user_message was not called directly
NoResult ==
    [called |-> FALSE, text |-> "", previous |-> NoSession, llm |-> NoLlm, dp |-> None,
     out |-> [intent |-> "none", entities |-> NoSession, response |-> ""]]

\* no message was handled under observation
NoObserved ==
    [seen |-> FALSE, ev |-> TextEvent("u1", 0, "", ""), llm |-> NoLlm, dp |-> None, before |-> NoSession,
     reached |-> FALSE]

TypeOK ==
    /\ session_data \in [Users -> [Keys -> STRING]]
    /\ processed_message_ids \subseteq 1..MaxMsgId
    /\ status \in {"none", "ok", "ignored"}
    /\ steps \in Nat
    /\ clears \in Nat

Init ==
    /\ session_data = [u \in Users |-> NoSession]
    /\ processed_message_ids = {}
    /\ sent = <<>>
    /\ record = NoRecord
    /\ status = "none"
    /\ handled = [i \in 1..MaxMsgId |-> 0]
    /\ clears = 0
    /\ steps = 0
    /\ extracted = NoResult
    /\ observed = NoObserved
    /\ io = [write |-> "none", post |-> "none", returned |-> None]
    /\ tasks = <<>>
    /\ loop = 0
    /\ flow = <<>>
    /\ normalized = [called |-> FALSE, date_str |-> None, time_str |-> None, out |-> <<None, None>>]
    /\ fault = [payload |-> "none", send |-> "none", posted |-> None, raised |-> FALSE]

\* a duplicate test that recognises nothing
IsDuplicateNever(ids, ev) == ev.id # 0 /\ ev.id \in ids /\ ev.id \notin 1..MaxMsgId

\* the duplicate test on the message id (a message without id is never a duplicate)
IsDuplicate(ids, ev) == ev.id # 0 /\ ev.id \in ids

\* whether an unseen message finds the id set over the cap, and clears it
Clears(ids, ev) == ev.id # 0 /\ Cardinality(ids) > DedupCap

\* an id set that forgets everything it held at each new id
RememberOnlyLast(ids, ev) == IF ev.id = 0 THEN ids ELSE {ev.id}

\* an id set that is never cleared
RememberAll(ids, ev) ==
    IF ev.id = 0 THEN ids
    ELSE ids \cup {ev.id}

\* processed_message_ids after an unseen message: cleared wholesale when it holds
\* more than the cap, then the id is added
Remember(ids, ev) ==
    IF ev.id = 0 THEN ids
    ELSE IF Clears(ids, ev) THEN {ev.id}
    ELSE ids \cup {ev.id}

\* a store in which every key holds the one dictionary the handler wrote
OutcomeShared(sd, ids, ev, c) ==
    IF IsDuplicate(ids, ev)
    THEN [sd |-> sd, ids |-> ids, out |-> <<>>, rec |-> NoRecord, status |-> "ignored"]
    ELSE [sd |-> [u \in Users |-> c.s], ids |-> Remember(ids, ev), out |-> c.out,
          rec |-> c.rec, status |-> c.status]

\* what webhook_handler leaves behind, given the context c its branches ended
\* in: the store, the id set, the messages sent, the record, the value returned
Outcome(sd, ids, ev, c) ==
    IF IsDuplicate(ids, ev)
    THEN [sd |-> sd, ids |-> ids, out |-> <<>>, rec |-> NoRecord, status |-> "ignored"]
    ELSE [sd |-> [sd EXCEPT ![ev.from] = c.s], ids |-> Remember(ids, ev), out |-> c.out,
          rec |-> c.rec, status |-> c.status]

\* webhook_handler on one message, for one answer of the extraction service and
\* one of dateparser
Webhook(sd, ids, ev, llm, dp) == Outcome(sd, ids, ev, Handle(sd[ev.from], ev, llm, dp))

\* the effects of one call of the handler
Finish(ev, r) ==
    /\ steps' = steps + 1
    /\ session_data' = r.sd
    /\ processed_message_ids' = r.ids
    /\ sent' = r.out
    /\ record' = r.rec
    /\ status' = r.status
    /\ handled' = IF ev.id # 0 /\ r.status # "ignored"
                  THEN [handled EXCEPT ![ev.id] = @ + 1] ELSE handled
    /\ clears' = IF ~IsDuplicate(processed_message_ids, ev) /\ Clears(processed_message_ids, ev)
                 THEN clears + 1 ELSE clears
    /\ UNCHANGED extracted

\* a message that is ignored as a duplicate or answered by a handler branch
\* above the extractor call; b is the context the branches above it ended in
HandleDirect(ev, b) ==
    /\ IsDuplicate(processed_message_ids, ev) \/ b.done
    /\ \E r \in {Outcome(session_data, processed_message_ids, ev, b)} : Finish(ev, r)
    /\ UNCHANGED observed

\* a message that reaches process_user_message
HandleWithExtractor(ev, b, llm, dp) ==
    /\ ~IsDuplicate(processed_message_ids, ev) /\ ~b.done
    /\ \E r \in {Outcome(session_data, processed_message_ids, ev, LlmStage(b, ev, llm, dp))} :
            Finish(ev, r)
    /\ UNCHANGED observed

\* the answers of the extraction service explored for a message: every answer
\* for the free texts of RichTexts, a failure or an empty answer for the others
RichTexts == {"hello there", "blood test tomorrow morning", "i want today"}

LlmAnswers(ev) ==
    IF ev.kind = "text" /\ ev.body \in RichTexts THEN LlmResults
    ELSE {l \in LlmResults : l.entities = Nothing /\ l.intent \in {"none", "appointment_request"}}

\* the answers dateparser can give for the text of the message
DateparserAnswers(ev) == ParseWholeText(ProcessText(UserText(ev)))

\* one user, messages without id: the dialogue of a single session
Next ==
    /\ steps < MaxEvents
    /\ UNCHANGED <<io, tasks, loop, fault, normalized, flow>>
    /\ \E ev \in EventsOf("u1", {0}) : \E b \in {BeforeExtractor(session_data[ev.from], ev)} :
        \/ HandleDirect(ev, b)
        \/ \E llm \in LlmAnswers(ev) : \E dp \in DateparserAnswers(ev) : HandleWithExtractor(ev, b, llm, dp)

Spec == Init /\ [][Next]_vars

\* the messages of the deliveries with ids: a greeting, a category and a
\* sub-category button, a "yes"
DedupEvents ==
    {TextEvent(u, id, ContactName(u), b) : u \in Users, id \in 1..MaxMsgId, b \in {"hi", "Yes"}}
    \cup {ReplyEvent(u, id, ContactName(u), b) : u \in Users, id \in 1..MaxMsgId, b \in {"lab_test", "nurse_visit"}}

\* two users, every message with an id, deliveries repeated in any order
NextDedup ==
    /\ steps < MaxDedupEvents
    /\ UNCHANGED <<io, tasks, loop, fault, normalized, flow>>
    /\ \E ev \in DedupEvents : \E b \in {BeforeExtractor(session_data[ev.from], ev)} : HandleDirect(ev, b)

SpecDedup == Init /\ [][NextDedup]_vars

\* a direct call result = process_user_message(user_text, prev_entities) on the
\* stored session of u1; the call is a pure function of its arguments and of
\* the answers of the extraction service and of dateparser
Extract(text, llm, dp) ==
    /\ extracted' = [called |-> TRUE, text |-> text, previous |-> SessOrEmpty(session_data["u1"]),
                     llm |-> llm, dp |-> dp,
                     out |-> process_user_message(text, SessOrEmpty(session_data["u1"]), llm, dp)]
    /\ steps' = steps + 1
    /\ UNCHANGED <<session_data, processed_message_ids, sent, record, status, handled, clears, observed>>

\* button replies build the session of u1, then process_user_message is called
\* on it once, with every text and every answer of the two services
NextExtract ==
    /\ steps < MaxExtractEvents
    /\ UNCHANGED <<io, tasks, loop, fault, normalized, flow>>
    /\ ~extracted.called
    /\ \/ \E ev \in EventsOf("u1", {0}) : \E b \in {BeforeExtractor(session_data[ev.from], ev)} :
            ev.kind = "interactive" /\ HandleDirect(ev, b)
       \/ \E text \in Texts : \E llm \in LlmResults : \E dp \in ParseWholeText(ProcessText(text)) :
            Extract(text, llm, dp)

SpecExtract == Init /\ [][NextExtract]_vars

\* webhook_handler on one message of u1, with the message, the answers of the
\* two services and the session it found kept for inspection; reached tells
\* whether the handler got as far as the call of process_user_message
Observe(ev, b, llm, dp) ==
    /\ IF b.done THEN llm = NoLlm /\ dp = None
       ELSE llm \in LlmAnswers(ev) /\ dp \in DateparserAnswers(ev)
    /\ \E r \in {Outcome(session_data, processed_message_ids, ev,
                          IF b.done THEN b ELSE LlmStage(b, ev, llm, dp))} : Finish(ev, r)
    /\ observed' = [seen |-> TRUE, ev |-> ev, llm |-> llm, dp |-> dp, before |-> session_data[ev.from],
                    reached |-> ~b.done]

\* at most MaxObserveEvents - 1 messages build the session of u1, then one more
\* message is handled under observation, with every answer of the two services
NextObserve ==
    /\ steps < MaxObserveEvents
    /\ UNCHANGED <<io, tasks, loop, fault, normalized, flow>>
    /\ ~observed.seen
    /\ \E ev \in EventsOf("u1", {0}) : \E b \in {BeforeExtractor(session_data[ev.from], ev)} :
        \/ steps + 1 < MaxObserveEvents /\ HandleDirect(ev, b)
        \/ /\ steps + 1 < MaxObserveEvents
           /\ \E llm \in LlmAnswers(ev) : \E dp \in DateparserAnswers(ev) : HandleWithExtractor(ev, b, llm, dp)
        \/ \E llm \in LlmAnswers(ev) \cup {NoLlm} : \E dp \in DateparserAnswers(ev) \cup {None} :
                Observe(ev, b, llm, dp)

SpecObserve == Init /\ [][NextObserve]_vars

\* send_appointment_to_node(record) for one outcome of requests.post: the
\* backend accepts the record, answers with an error status, or the request
\* raises (timeout, connection refused); the value returned, or "raised"
send_appointment_to_node(post) ==
    IF post \in {"accepted", "rejected"} THEN True ELSE False

\* safe_post: the request is delivered, answered with an error status (printed,
\* the response is returned all the same) or raises (printed, None is returned)
safe_post(outcome) ==
    IF outcome \in {"delivered", "rejected"} THEN "resp" ELSE None

\* a handler whose except clause lets the exception through
webhook_handler_unguarded(body) ==
    IF body = "raise" THEN "raised" ELSE body

\* the try/except around the whole body of webhook_handler: an exception is
\* printed and the handler goes on to its last line, return {"status": "ok"}
webhook_handler_guarded(body) ==
    IF body = "raise" THEN "ok" ELSE body

\* messages are handled while the write of the booking record to its file
\* succeeds or fails and while the sends are delivered, rejected or raise;
\* send_appointment_to_node is called with every outcome of its request; and
\* payloads arrive that are not a message: a body that is not JSON, a JSON
\* value that is not an object, an object without entry, changes or messages,
\* a message without sender, a message whose text is not an object
NextIo ==
    /\ steps < MaxIoEvents
    /\ UNCHANGED <<tasks, loop, normalized, flow>>
    /\ \/ /\ \E ev \in EventsOf("u1", {0}) : \E b \in {BeforeExtractor(session_data[ev.from], ev)} :
               \/ HandleDirect(ev, b)
               \/ \E llm \in LlmAnswers(ev) : \E dp \in DateparserAnswers(ev) :
                      HandleWithExtractor(ev, b, llm, dp)
          /\ \E w \in {"written", "failed"} :
               io' = [write |-> IF record'.built THEN w ELSE "none", post |-> "none", returned |-> None]
          /\ \E snd \in {"delivered", "rejected", "exception"} :
               fault' = IF sent' = <<>>
                        THEN [payload |-> "message", send |-> "none", posted |-> None, raised |-> FALSE]
                        ELSE [payload |-> "message", send |-> snd, posted |-> safe_post(snd),
                              raised |-> safe_post(snd) = "raise"]
       \/ /\ \E post \in {"accepted", "rejected", "timeout", "refused"} :
               io' = [write |-> "none", post |-> post, returned |-> send_appointment_to_node(post)]
          /\ steps' = steps + 1
          /\ UNCHANGED <<session_data, processed_message_ids, sent, record, status, handled, clears,
                         extracted, observed, fault>>
       \/ /\ \E shape \in {"bad_json", "not_object", "no_entry", "no_changes", "no_messages",
                             "no_sender", "text_not_object"} :
               \E body \in {IF shape \in {"bad_json", "not_object", "text_not_object"}
                             THEN "raise" ELSE "ignored"} :
                   /\ status' = webhook_handler_guarded(body)
                   /\ fault' = [payload |-> shape, send |-> "none", posted |-> None, raised |-> body = "raise"]
          /\ sent' = <<>> /\ record' = NoRecord
          /\ io' = [write |-> "none", post |-> "none", returned |-> None]
          /\ steps' = steps + 1
          /\ UNCHANGED <<session_data, processed_message_ids, handled, clears, extracted, observed>>

SpecIo == Init /\ [][NextIo]_vars

\* normalize_date_time is called with date and time phrases, null and empty
\* ones included
NextNormalize ==
    /\ steps < MaxNormalizeCalls
    /\ \E d \in {None, "", "today", "tomorrow", "tomorrow morning", "evening", "someday", TODAY, TOMORROW, "D+n"} :
       \E t \in {None, "", "morning", "afternoon", "evening", "night", "3pm", "09:00", "15:00", "00:00",
                 "noonish"} :
            normalized' = [called |-> TRUE, date_str |-> d, time_str |-> t, out |-> normalize_date_time(d, t)]
    /\ steps' = steps + 1
    /\ UNCHANGED <<session_data, processed_message_ids, sent, record, status, handled, clears, extracted,
                   observed, io, tasks, loop, fault, flow>>

SpecNormalize == Init /\ [][NextNormalize]_vars

\* the guided booking from an empty session: a category button, a
\* sub-category of that category, a date button, a time button, a typed age
\* and a shared location, in this order; the extraction service and dateparser
\* answer anything on the messages that reach them
NextFlow ==
    /\ Len(flow) < 6
    /\ UNCHANGED <<io, tasks, loop, fault, normalized>>
    /\ \E ev \in CASE Len(flow) = 0 -> {ReplyEvent("u1", 0, ContactName("u1"), b) : b \in {"care_at_home", "lab_test"}}
                   [] Len(flow) = 1 -> {ReplyEvent("u1", 0, ContactName("u1"), b) :
                                           b \in IF flow[1].body = "care_at_home"
                                                 THEN {"nurse_visit", "physiotherapy", "elderly_care",
                                                       "post_surgery_care"}
                                                 ELSE {"blood_test", "urine_test", "covid_test",
                                                       "full_body_checkup"}}
                   [] Len(flow) = 2 -> {ReplyEvent("u1", 0, ContactName("u1"), b) : b \in {"date_today", "date_tomorrow"}}
                   [] Len(flow) = 3 -> {ReplyEvent("u1", 0, ContactName("u1"), b) : b \in {"time_morning", "time_afternoon",
                                                                                       "time_evening"}}
                   [] Len(flow) = 4 -> {TextEvent("u1", 0, ContactName("u1"), "32")}
                   [] OTHER -> {LocationEvent("u1", 0, ContactName("u1"), l) : l \in {"named", "coords"}} :
         /\ flow' = Append(flow, ev)
         /\ \E b \in {BeforeExtractor(session_data[ev.from], ev)} :
               \/ HandleDirect(ev, b)
               \/ \E llm \in LlmResults : \E dp \in DateparserAnswers(ev) : HandleWithExtractor(ev, b, llm, dp)

SpecFlow == Init /\ [][NextFlow]_vars

\* the dialogue of a medicine delivery: the date, time and age are given with
\* texts and buttons, the way of giving the medicine details is typed, then
\* the medicine names are typed or the prescription is sent
NextMedicine ==
    /\ steps < MaxMedicineEvents
    /\ UNCHANGED <<io, tasks, loop, fault, normalized, flow>>
    /\ \E ev \in {TextEvent("u1", 0, ContactName("u1"), b) :
                       b \in {"tomorrow morning", "32", "type the medicine", "send doctor's prescription",
                              "urgent medicine"}}
                 \cup {ReplyEvent("u1", 0, ContactName("u1"), b) : b \in {"medicine_delivery", "date_today",
                                                                         "time_morning"}}
                 \cup {MediaEvent("u1", 0, ContactName("u1"))} :
         \E b \in {BeforeExtractor(session_data[ev.from], ev)} :
            \/ HandleDirect(ev, b)
            \/ \E llm \in LlmAnswers(ev) : \E dp \in DateparserAnswers(ev) : HandleWithExtractor(ev, b, llm, dp)

SpecMedicine == Init /\ [][NextMedicine]_vars

\* a handler that also awaits around the call of the extractor
AwaitPointsAroundExtractor == {"parse", "store"}

\* the places where the coroutine webhook_handler gives the event loop back:
\* its only await is data = await request.json(), before anything is read;
\* every call after it (requests.post, the OpenAI client) blocks the loop
AwaitPoints == {"parse"}

\* the event loop runs the coroutines of webhook_handler for the messages of
\* u1: a request arrives when the loop is free and waits for its body; a
\* coroutine that runs keeps the loop until it awaits or returns.  Its steps
\* are the check-then-insert on processed_message_ids (check), the read of the
\* session (handle) and the rest of the handler with its writes (store)
NextAsync ==
    /\ UNCHANGED <<handled, clears, extracted, observed, io, fault, normalized, flow>>
    /\ \/ /\ loop = 0 /\ Len(tasks) < MaxTasks
          /\ \E ev \in {e \in DedupEvents : e.from = "u1"} :
                tasks' = Append(tasks, [ev |-> ev, pc |-> "parse", seen |-> NoSession])
          /\ UNCHANGED <<session_data, processed_message_ids, sent, record, status, steps, loop>>
       \/ \E i \in 1..Len(tasks) :
            LET t == tasks[i]
                At(pc, seen) == [tasks EXCEPT ![i] = [ev |-> t.ev, pc |-> pc, seen |-> seen]]
                Holder(pc) == IF pc \in AwaitPoints \cup {"done"} THEN 0 ELSE i
            IN
            /\ loop \in {0, i}
            /\ \/ /\ t.pc = "parse"
                  /\ tasks' = At("check", t.seen) /\ loop' = Holder("check")
                  /\ UNCHANGED <<session_data, processed_message_ids, sent, record, status, steps>>
               \/ /\ t.pc = "check"
                  /\ IF IsDuplicate(processed_message_ids, t.ev)
                     THEN /\ tasks' = At("done", t.seen) /\ loop' = Holder("done")
                          /\ status' = "ignored" /\ sent' = <<>> /\ record' = NoRecord
                          /\ steps' = steps + 1
                          /\ UNCHANGED <<session_data, processed_message_ids>>
                     ELSE /\ tasks' = At("handle", t.seen) /\ loop' = Holder("handle")
                          /\ processed_message_ids' = Remember(processed_message_ids, t.ev)
                          /\ UNCHANGED <<session_data, sent, record, status, steps>>
               \/ /\ t.pc = "handle"
                  /\ tasks' = At("store", session_data[t.ev.from]) /\ loop' = Holder("store")
                  /\ UNCHANGED <<session_data, processed_message_ids, sent, record, status, steps>>
               \/ /\ t.pc = "store"
                  /\ tasks' = At("done", t.seen) /\ loop' = Holder("done")
                  /\ \E llm \in LlmAnswers(t.ev) : \E dp \in DateparserAnswers(t.ev) :
                        \E c \in {Handle(t.seen, t.ev, llm, dp)} :
                            /\ session_data' = [session_data EXCEPT ![t.ev.from] = c.s]
                            /\ sent' = c.out /\ record' = c.rec /\ status' = c.status
                  /\ steps' = steps + 1
                  /\ UNCHANGED processed_message_ids

SpecAsync == Init /\ [][NextAsync]_vars

----------------------------------------------------------------------------
(* Properties of the stored sessions *)

\* the six fields a booking needs
RequiredFields == {"date", "time", "category", "sub_category", "location", "age"}

\* a value that is present and not empty
NonEmpty(v) == v \notin {Absent, None, ""}

\* C1: a stored session whose state is 'confirming' has date, time, category,
\* sub_category, location and age non-empty and a time other than "00:00": the
\* state is entered only with all six present, and they stay while it lasts
C1_ConfirmingIsComplete ==
    \A u \in Users :
        Get(session_data[u], "state") = "confirming" =>
            /\ \A k \in RequiredFields : NonEmpty(Get(session_data[u], k))
            /\ Get(session_data[u], "time") # "00:00"

\* a message has just moved the session to 'confirming': the summary was sent
\* with the two confirm buttons
C1_Witness ==
    /\ Get(session_data["u1"], "state") = "confirming"
    /\ Len(sent) >= 2
    /\ sent[Len(sent)] = ConfirmButtons

\* sub_category is empty or allowed for the category of the session
SubCategoryAllowed(s) ==
    \/ ~NonEmpty(Get(s, "sub_category"))
    \/ /\ normalize_cat(Get(s, "category")) \in DOMAIN CATEGORY_MAP
       /\ Get(s, "sub_category") \in CATEGORY_MAP[normalize_cat(Get(s, "category"))]

\* C2: in every stored session sub_category is empty or a member of the allowed
\* sub-categories of the session's category
C2_SubCategoryAllowed == \A u \in Users : SubCategoryAllowed(session_data[u])

\* a sub-category was chosen and the session holds it
C2_Witness ==
    /\ NonEmpty(Get(session_data["u1"], "sub_category"))
    /\ Get(session_data["u1"], "last_interaction") # "llm_processed"

\* the fields of the session schema (make_empty_session and the medicine keys)
SchemaFields ==
    {"name", "age", "date", "time", "category", "sub_category", "location", "location_coords",
     "location_address", "awaiting_address", "awaiting_field", "confirmed", "greeted", "state",
     "last_interaction", "medicine_text", "prescription_uploaded", "prescription_media_id"}

AwaitedNames ==
    {"date", "time", "age", "category", "sub_category", "location", "medicine_text", "prescription_upload"}

----------------------------------------------------------------------------
(* Properties of the duplicate suppression *)

\* C3 as stated: a message id is acted upon at most once, whatever is delivered
\* between two deliveries of it
C3_AtMostOnce == \A i \in 1..MaxMsgId : handled[i] <= 1

\* C3, amended: a message id is acted upon at most once between two clearings
\* of processed_message_ids; the set is cleared when an unseen id arrives while
\* it holds more ids than the cap, and every id delivered before that is acted
\* upon again at its next delivery
C3_AtMostOncePerClearing == \A i \in 1..MaxMsgId : handled[i] <= 1 + clears

\* an id was delivered a second time and ignored
C3_Witness ==
    /\ status = "ignored"
    /\ \E i \in processed_message_ids : handled[i] = 1

\* C4: a message whose id is in processed_message_ids is ignored before any
\* other rule: the handler returns 'ignored', the store of every user and the
\* id set stay as they are, nothing is sent and no record is built
C4_DuplicateIgnored ==
    \A ev \in DedupEvents :
        ev.id \in processed_message_ids =>
            LET r == Webhook(session_data, processed_message_ids, ev, NoLlm, None) IN
            /\ r.status = "ignored"
            /\ r.sd = session_data
            /\ r.ids = processed_message_ids
            /\ r.out = <<>>
            /\ r.rec = NoRecord

\* a duplicate was just ignored while a session of its sender is stored
C4_Witness ==
    /\ status = "ignored"
    /\ sent = <<>>
    /\ \E u \in Users : session_data[u] # NoSession
    /\ processed_message_ids # {}

----------------------------------------------------------------------------
(* Properties of the yes / no replies and of the restart phrase *)

\* the replies the handler reads as "yes" and as "no"
SaysYes(ev) ==
    /\ ev.kind \in {"text", "interactive"}
    /\ Lower(Strip(ev.body)) \in {"yes", "y", "confirm", "ok", "sure"} \/ ev.body = "confirm_yes"

SaysNo(ev) ==
    /\ ev.kind \in {"text", "interactive"}
    /\ Lower(Strip(ev.body)) \in {"no", "cancel", "stop"} \/ ev.body = "confirm_no"

\* the fields the booking record copies from the session
RecordFields ==
    {"name", "age", "category", "sub_category", "date", "time", "location_address", "location_coords",
     "state", "last_interaction"}

\* C6 as stated: a text with a restart phrase leaves the sender's session empty
\* with greeted true and sends the restart acknowledgement, whatever the session
\* held before
C6_RestartResets ==
    \A u \in Users : \A ev \in EventsOf(u, {0}) :
        (ev.kind = "text" /\ HasRestartPhrase(Lower(ev.body))) =>
            \A llm \in LlmAnswers(ev) : \A dp \in DateparserAnswers(ev) :
                LET r == Webhook(session_data, processed_message_ids, ev, llm, dp) IN
                /\ \A k \in RequiredFields \cup {"awaiting_field"} : ~NonEmpty(Get(r.sd[u], k))
                /\ Get(r.sd[u], "greeted") = True
                /\ \E n \in 1..Len(r.out) : r.out[n] = Text("No problem! Let's start fresh.")

\* C7: a "yes" received while the state is 'confirming' builds the booking
\* record from the session, sends the confirmation acknowledgement and leaves
\* the empty main_menu session stored
C7_YesConfirms ==
    \A u \in Users : \A ev \in EventsOf(u, {0}) :
        (SaysYes(ev) /\ Get(session_data[u], "state") = "confirming") =>
            LET r == Webhook(session_data, processed_message_ids, ev, NoLlm, None) IN
            /\ r.rec.built
            /\ r.rec.user_number = u
            /\ \A k \in RecordFields : r.rec[k] = Get(session_data[u], k)
            /\ r.out = <<Text("confirmation_yes")>>
            /\ r.sd[u] = make_empty_session
            /\ Get(r.sd[u], "state") = "main_menu"

\* a booking was just confirmed
C7_Witness ==
    /\ record.built
    /\ record.category = "lab test"
    /\ sent = <<Text("confirmation_yes")>>
    /\ session_data["u1"] = make_empty_session

\* C8: a "yes" received when the state is not 'confirming', or when no session
\* is stored, builds no record and sends no acknowledgement: the three-option
\* menu is sent and the store stays as it is
C8_YesOutsideShowsMenu ==
    \A u \in Users : \A ev \in EventsOf(u, {0}) :
        (SaysYes(ev) /\ Get(session_data[u], "state") # "confirming") =>
            LET r == Webhook(session_data, processed_message_ids, ev, NoLlm, None) IN
            /\ r.rec = NoRecord
            /\ r.out = <<MenuButtons>>
            /\ Cardinality(MenuButtons.ids) = 3
            /\ r.sd = session_data

\* the menu was just re-shown on a "yes" while a booking is under way
C8_Witness ==
    /\ sent = <<MenuButtons>>
    /\ record = NoRecord
    /\ NonEmpty(Get(session_data["u1"], "category"))
    /\ Get(session_data["u1"], "state") = "main_menu"

\* C9: a "no" received while the state is 'confirming' sends the cancellation
\* acknowledgement and leaves the empty main_menu session stored, and a "yes"
\* that follows it at once gets the menu and builds no record
C9_NoCancelsThenYesShowsMenu ==
    \A u \in Users : \A ev \in EventsOf(u, {0}) :
        (SaysNo(ev) /\ Get(session_data[u], "state") = "confirming") =>
            LET r == Webhook(session_data, processed_message_ids, ev, NoLlm, None) IN
            /\ r.out = <<Text("confirmation_no")>>
            /\ r.rec = NoRecord
            /\ r.sd[u] = make_empty_session
            /\ Get(r.sd[u], "state") = "main_menu"
            /\ \A ev2 \in EventsOf(u, {0}) :
                  SaysYes(ev2) =>
                      LET r2 == Webhook(r.sd, r.ids, ev2, NoLlm, None) IN
                      /\ r2.out = <<MenuButtons>>
                      /\ r2.rec = NoRecord

\* a booking was just cancelled
C9_Witness ==
    /\ sent = <<Text("confirmation_no")>>
    /\ record = NoRecord
    /\ session_data["u1"] = make_empty_session

\* C10: a "no" received outside the 'confirming' state sends the close-out line
\* alone, returns before the extractor is called (its answer makes no
\* difference, whether the call fails or names every field) and leaves the
\* store, every field of the session, as it is
C10_NoOutsideClosesOut ==
    \A u \in Users : \A ev \in EventsOf(u, {0}) :
        (SaysNo(ev) /\ Get(session_data[u], "state") # "confirming") =>
            /\ BeforeExtractor(session_data[u], ev).done
            /\ \A llm \in {l \in LlmResults : l.kind = "fail" \/ l.entities["location"] # None} :
                  LET r == Webhook(session_data, processed_message_ids, ev, llm, None) IN
                  /\ r.out = <<Text("Okay - if you need anything later, just say hi.")>>
                  /\ r.rec = NoRecord
                  /\ r.sd = session_data

\* the close-out line was just sent while a question is pending
C10_Witness ==
    /\ sent = <<Text("Okay - if you need anything later, just say hi.")>>
    /\ NonEmpty(Get(session_data["u1"], "awaiting_field"))

----------------------------------------------------------------------------
(* Properties of the greeting and of the extraction from free text *)

\* a typed text that is exactly a greeting word once stripped and lowered
IsBareGreeting(ev) == ev.kind = "text" /\ Lower(Strip(ev.body)) \in GREETING_TEXTS

\* C11: a typed greeting word, in any session state, leaves the empty
\* main_menu session stored (last_interaction notes the greeting) and sends a
\* greeting followed by the three-option category menu
C11_GreetingResets ==
    \A u \in Users : \A ev \in EventsOf(u, {0}) :
        IsBareGreeting(ev) =>
            LET r == Webhook(session_data, processed_message_ids, ev, NoLlm, None) IN
            /\ \A k \in Keys \ {"last_interaction"} : r.sd[u][k] = make_empty_session[k]
            /\ Get(r.sd[u], "state") = "main_menu"
            /\ r.out = <<Text("greeting"), MenuButtons>>
            /\ MenuButtons.ids = {"care_at_home", "medicine_delivery", "lab_test"}

\* a greeting was just answered: the greeting and the menu were sent
C11_Witness ==
    /\ sent = <<Text("greeting"), MenuButtons>>
    /\ Get(session_data["u1"], "last_interaction") = "greeting"
    /\ Get(session_data["u1"], "state") = "main_menu"

\* a typed text that is not a greeting, a yes/no reply or a restart phrase
IsFreeText(ev) ==
    /\ ev.kind = "text"
    /\ ~IsBareGreeting(ev) /\ ~SaysYes(ev) /\ ~SaysNo(ev)
    /\ ~HasRestartPhrase(Lower(ev.body))

\* C12: handling a free text never changes a date, time, category or
\* sub_category that the session already held: extraction only fills gaps
C12_ExtractionOnlyFillsGaps ==
    \A u \in Users : \A ev \in EventsOf(u, {0}) :
        IsFreeText(ev) =>
            \A llm \in LlmAnswers(ev) : \A dp \in DateparserAnswers(ev) :
                LET r == Webhook(session_data, processed_message_ids, ev, llm, dp) IN
                \A k \in {"date", "time", "category", "sub_category"} :
                    NonEmpty(Get(session_data[u], k)) => Get(r.sd[u], k) = Get(session_data[u], k)

\* a free text was just handled by the date/time word fast path on a session
\* that holds a category
C12_Witness ==
    /\ Get(session_data["u1"], "last_interaction") = "free_text_datetime"
    /\ NonEmpty(Get(session_data["u1"], "date"))
    /\ NonEmpty(Get(session_data["u1"], "category"))

\* the first non-empty value of field k in the order previous session,
\* rule-based result, LLM result, for the call c; None when all three are empty
FirstProposed(c, k) ==
    LET rb == rule_based_extract(ProcessText(c.text), c.previous, c.dp) IN
    IF NonEmpty(c.previous[k]) THEN c.previous[k]
    ELSE IF rb.found /\ NonEmpty(rb.entities[k]) THEN rb.entities[k]
    ELSE IF NonEmpty(c.llm.entities[k]) THEN c.llm.entities[k]
    ELSE None

C14_DisallowedSubIsNull ==
    \A u \in Users : \A ev \in EventsOf(u, {0}) :
        (IsFreeText(ev) /\ ~BeforeExtractor(session_data[u], ev).done) =>
            \A llm \in {l \in LlmAnswers(ev) : l.kind = "ok"} : \A dp \in DateparserAnswers(ev) :
                LET s == Webhook(session_data, processed_message_ids, ev, llm, dp).sd[u]
                    cat == normalize_cat(Get(s, "category"))
                IN (cat \in DOMAIN CATEGORY_MAP /\ NonEmpty(Get(s, "sub_category"))) =>
                        Lower(Strip(Get(s, "sub_category"))) \in CATEGORY_MAP[cat]

\* the extraction service answered category "care at home" with sub_category
\* "urgent medicines" and the sub_category was stored as null
C14_Witness ==
    /\ Get(session_data["u1"], "last_interaction") = "llm_processed"
    /\ Get(session_data["u1"], "category") = "care at home"
    /\ ~NonEmpty(Get(session_data["u1"], "sub_category"))
    /\ Get(session_data["u1"], "awaiting_field") = None
    /\ sent = <<CareOptions>>

----------------------------------------------------------------------------
(* Properties of the questions the handler asks *)

\* the field the last outbound message of a handling asks for, None when the
\* last message is not a question for a field
AskedField(out) ==
    LET m == out[Len(out)] IN
    IF out = <<>> THEN None
    ELSE CASE m = DateButtons -> "date"
           [] m = TimeButtons -> "time"
           [] m = AskAge -> "age"
           [] m \in {AskLocation, Text("Please share your location or type your address.")} -> "location"
           [] m = MenuButtons -> "category"
           [] m \in {CareOptions, MedicineOptions, LabOptions,
                     Text("Please tell me which sub-service you want.")} -> "sub_category"
           [] OTHER -> None

\* C15: whenever a handling ends by asking for a field, the field is the first
\* one in the order date, time, age, location, category, sub_category that is
\* missing in the session stored by that handling
C15_AsksFirstMissing ==
    \A u \in Users : \A ev \in EventsOf(u, {0}) :
        \A llm \in LlmAnswers(ev) : \A dp \in DateparserAnswers(ev) :
            LET r == Webhook(session_data, processed_message_ids, ev, llm, dp) IN
            AskedField(r.out) # None =>
                AskedField(r.out) =
                    FirstMissing(r.sd[u], <<"date", "time", "age", "location", "category", "sub_category">>)

\* a handling has just asked for the age, the first missing field of the session
C15_Witness ==
    /\ AskedField(sent) = "age"
    /\ FirstMissing(session_data["u1"], <<"date", "time", "age", "location", "category", "sub_category">>) = "age"
    /\ Get(session_data["u1"], "awaiting_field") = "age"

\* C16: a handling that ends by asking for a field leaves awaiting_field equal
\* to that field, and it asks only when no other question was outstanding:
\* awaiting_field was null before the message, or the field it named is no
\* longer missing after it (greetings and yes/no replies, which show the
\* menu on their own, are left out)
C16_OneQuestionOutstanding ==
    \A u \in Users : \A ev \in EventsOf(u, {0}) :
        (~IsBareGreeting(ev) /\ ~SaysYes(ev) /\ ~SaysNo(ev)) =>
            \A llm \in LlmAnswers(ev) : \A dp \in DateparserAnswers(ev) :
                LET r == Webhook(session_data, processed_message_ids, ev, llm, dp)
                    before == Get(session_data[u], "awaiting_field")
                IN AskedField(r.out) # None =>
                    /\ Get(r.sd[u], "awaiting_field") = AskedField(r.out)
                    /\ before \in {None, AskedField(r.out)} \/ ~is_missing(r.sd[u], before)

\* the date was asked for while nothing was awaited, and it is awaited now
C16_Witness ==
    /\ AskedField(sent) = "date"
    /\ Get(session_data["u1"], "awaiting_field") = "date"
    /\ Get(session_data["u1"], "sub_category") = "nurse visit"

\* C17: when a message supplies the field named by awaiting_field (the field
\* was missing before the message and is not after it), the stored session
\* ends with awaiting_field null, unless the handling asked for another field
C17_AnswerClearsAwaiting ==
    \A u \in Users : \A ev \in EventsOf(u, {0}) :
        \A llm \in LlmAnswers(ev) : \A dp \in DateparserAnswers(ev) :
            LET r == Webhook(session_data, processed_message_ids, ev, llm, dp)
                before == Get(session_data[u], "awaiting_field")
            IN (/\ before \in RequiredFields
                /\ is_missing(session_data[u], before)
                /\ ~is_missing(r.sd[u], before)) =>
                    \/ Get(r.sd[u], "awaiting_field") = None
                    \/ AskedField(r.out) \notin {None, before}

\* the awaited time was supplied by a button and the age is asked for next
C17_Witness ==
    /\ Get(session_data["u1"], "last_interaction") = "time_selected"
    /\ NonEmpty(Get(session_data["u1"], "time"))
    /\ Get(session_data["u1"], "awaiting_field") = "age"
    /\ AskedField(sent) = "age"

\* C18: the handler treats a stored time "00:00" exactly like an absent time:
\* such a session is not in 'confirming', and every message answered by the
\* handler's own branches (the ones before the extractor call) leads to the
\* same question and to 'confirming' or not as it would with the time absent
C18_MidnightIsAbsentTime ==
    \A u \in Users :
        Get(session_data[u], "time") = "00:00" =>
            /\ Get(session_data[u], "state") # "confirming"
            /\ \A ev \in EventsOf(u, {0}) :
                LET absent == [session_data EXCEPT ![u] = Put(@, "time", None)]
                    r1 == Webhook(session_data, processed_message_ids, ev, NoLlm, None)
                    r0 == Webhook(absent, processed_message_ids, ev, NoLlm, None)
                IN (BeforeExtractor(session_data[u], ev).done /\ BeforeExtractor(absent[u], ev).done) =>
                    /\ AskedField(r1.out) = AskedField(r0.out)
                    /\ Get(r1.sd[u], "state") = "confirming" <=> Get(r0.sd[u], "state") = "confirming"

\* a session holds the time "00:00" and the handler has asked for the time
C18_Witness ==
    /\ Get(session_data["u1"], "time") = "00:00"
    /\ Get(session_data["u1"], "awaiting_field") = "time"
    /\ AskedField(sent) = "time"

\* C19: on a session with category "lab test" and no sub_category, date, time
\* or age, the text "blood test tomorrow morning" leaves sub_category "blood
\* test", the date of tomorrow and time "09:00", and the age is asked for next
C19_AllCapturedAtOnce ==
    \A u \in Users :
        (/\ Get(session_data[u], "category") = "lab test"
         /\ \A k \in {"sub_category", "date", "time", "age"} : ~NonEmpty(Get(session_data[u], k))) =>
            \A ev \in {e \in EventsOf(u, {0}) : e.kind = "text" /\ e.body = "blood test tomorrow morning"} :
                \A llm \in LlmAnswers(ev) : \A dp \in DateparserAnswers(ev) :
                    LET r == Webhook(session_data, processed_message_ids, ev, llm, dp) IN
                    /\ Get(r.sd[u], "sub_category") = "blood test"
                    /\ Get(r.sd[u], "date") = TOMORROW
                    /\ Get(r.sd[u], "time") = "09:00"
                    /\ AskedField(r.out) = "age"

\* the date and time words of a free text were stored on a session with
\* category "lab test" and no sub_category
C19_Witness ==
    /\ Get(session_data["u1"], "category") = "lab test"
    /\ Get(session_data["u1"], "last_interaction") = "free_text_datetime"
    /\ Get(session_data["u1"], "date") = TOMORROW
    /\ Get(session_data["u1"], "time") = "09:00"
    /\ ~NonEmpty(Get(session_data["u1"], "sub_category"))

\* C20: the message that moves a session to 'confirming' sends the summary
\* once, followed by the confirm/cancel buttons; and while the session is in
\* 'confirming' with every required field set, a message that is neither a
\* yes nor a no (nor a greeting or a restart) and leaves the six fields as
\* they are does not send the summary or the buttons again
C20_SummarySentOnce ==
    \A u \in Users : \A ev \in EventsOf(u, {0}) :
        \A llm \in LlmAnswers(ev) : \A dp \in DateparserAnswers(ev) :
            LET r == Webhook(session_data, processed_message_ids, ev, llm, dp)
                summaries == {i \in 1..Len(r.out) : r.out[i] = SummaryAndConfirm(r.sd[u])[1]}
                prompts == {i \in 1..Len(r.out) : r.out[i] = ConfirmButtons}
            IN
            /\ (Get(session_data[u], "state") # "confirming" /\ Get(r.sd[u], "state") = "confirming") =>
                    /\ summaries = {Len(r.out) - 1}
                    /\ prompts = {Len(r.out)}
            /\ (/\ InConfirming(session_data[u]) /\ Complete(session_data[u])
                /\ ~SaysYes(ev) /\ ~SaysNo(ev) /\ ~IsBareGreeting(ev)
                /\ ~HasRestartPhrase(Lower(UserText(ev)))
                /\ \A k \in RequiredFields : Get(r.sd[u], k) = Get(session_data[u], k)) =>
                    summaries = {} /\ prompts = {}

\* a session has just moved to 'confirming' with every required field set
C20_Witness ==
    /\ InConfirming(session_data["u1"]) /\ Complete(session_data["u1"])
    /\ sent = SummaryAndConfirm(session_data["u1"])
    /\ Get(session_data["u1"], "last_interaction") = "asked_to_confirm"

----------------------------------------------------------------------------
(* Properties of one handled message, checked on the observed message *)

\* the observed message is a typed text for which the extraction service was
\* called (it is neither a greeting word nor a restart phrase, and no earlier
\* branch of the handler answered it) and the call failed
ExtractionFailed ==
    /\ observed.seen /\ observed.reached
    /\ observed.ev.kind = "text"
    /\ Lower(ProcessText(UserText(observed.ev))) \notin {"hi", "hello", "hey", "hey warmy"}
    /\ ~HasRestartPhrase(ProcessText(UserText(observed.ev)))
    /\ observed.llm.kind = "fail"

C22_TypedAgeParsed ==
    LET ev == observed.ev
        n == FirstDigits(Strip(UserText(observed.ev)))
    IN
    (/\ observed.seen /\ ev.kind = "text"
     /\ Get(observed.before, "awaiting_field") = "age"
     /\ ~IsBareGreeting(ev) /\ ~SaysYes(ev) /\ ~SaysNo(ev) /\ Lower(ev.body) # "test") =>
        IF n \in 1..120
        THEN /\ Get(session_data["u1"], "age") = AgeStr(n)
             /\ Get(session_data["u1"], "awaiting_field") # "age"
        ELSE /\ sent \in {<<Text("I didn't catch that. Please type the age as a number (e.g. 32).")>>,
                          <<Text("That age looks off - please enter an age between 1 and 120.")>>}
             /\ session_data["u1"] = observed.before

\* an age was typed while the age was awaited, and it was stored
C22_Witness ==
    /\ observed.seen /\ observed.ev.kind = "text" /\ observed.ev.body = "32"
    /\ Get(observed.before, "awaiting_field") = "age"
    /\ Get(observed.before, "age") = None
    /\ Get(session_data["u1"], "age") = "32"
    /\ sent[1] = Text("Thanks - noted age.")

\* C23: in every stored session the age is empty or denotes an integer between
\* 1 and 120, whether the typed-age branch or the extractor merge stored it
C23_AgeInRange ==
    LET Denoted(a) ==
            CASE a = "12" -> 12 [] a = "32" -> 32 [] a = "40" -> 40 [] a = "150" -> 150 [] a = "200" -> 200
              [] OTHER -> -1
    IN \A u \in Users :
          Truthy(Get(session_data[u], "age")) => Denoted(Get(session_data[u], "age")) \in 1..120

\* the extractor merge stored an age
C23_Witness ==
    /\ Get(session_data["u1"], "age") = "40"
    /\ sent # <<>>

\* C24: a button or list reply whose id BUTTON_MAPPINGS maps to a category, a
\* sub-category, a date shortcut or a time shortcut stores the canonical value
\* in the matching field, is answered without a call of process_user_message
\* (which runs rule_based_extract and the extraction service), and leaves
\* awaiting_field naming that field no longer when it named it before
C24_ReplyStoresDirectly ==
    LET id == observed.ev.body
        Field(m) ==
            CASE m \in DOMAIN CATEGORY_MAP -> "category"
              [] m \in CareSubs \cup LabSubs -> "sub_category"
              [] m \in DOMAIN interactive_date_map -> "date"
              [] m \in DOMAIN interactive_time_map -> "time"
              [] OTHER -> "none"
        Value(m) ==
            CASE m \in DOMAIN interactive_date_map -> interactive_date_map[m]
              [] m \in DOMAIN interactive_time_map -> interactive_time_map[m]
              [] OTHER -> m
    IN
    (/\ observed.seen /\ observed.ev.kind = "interactive"
     /\ id \in ButtonIds
     /\ Field(BUTTON_MAPPINGS[id]) # "none") =>
        /\ Get(session_data["u1"], Field(BUTTON_MAPPINGS[id])) = Value(BUTTON_MAPPINGS[id])
        /\ ~observed.reached
        /\ Get(observed.before, "awaiting_field") = Field(BUTTON_MAPPINGS[id])
              => Get(session_data["u1"], "awaiting_field") # Field(BUTTON_MAPPINGS[id])

\* a sub-category reply answered the question that was outstanding
C24_Witness ==
    /\ observed.seen /\ observed.ev.kind = "interactive" /\ observed.ev.body = "blood_test"
    /\ ~observed.reached
    /\ Get(observed.before, "awaiting_field") = "sub_category"
    /\ Get(session_data["u1"], "sub_category") = "blood test"
    /\ Get(session_data["u1"], "awaiting_field") = "date"

\* C25 as stated: a location message with a name or a latitude/longitude pair
\* stores location, location_address and the coordinates without a call of the
\* extractor, leaves awaiting_address not true, sets awaiting_field to null if
\* it was "location" and otherwise leaves it as it was, changes no other
\* required field and sends the location acknowledgement
C25_LocationStored ==
    (observed.seen /\ observed.ev.kind = "location" /\ observed.ev.loc \in {"named", "coords"}) =>
        /\ Get(session_data["u1"], "location") = (IF observed.ev.loc = "named" THEN "Clinic Rd" ELSE "12.9,77.6")
        /\ Get(session_data["u1"], "location_address") = Get(session_data["u1"], "location")
        /\ Get(session_data["u1"], "location_coords") = "12.9,77.6"
        /\ ~observed.reached
        /\ Get(session_data["u1"], "awaiting_address") # True
        /\ Get(session_data["u1"], "awaiting_field")
              = (IF Get(observed.before, "awaiting_field") = "location" THEN None
                 ELSE Get(observed.before, "awaiting_field"))
        /\ \A k \in RequiredFields \ {"location"} : Get(session_data["u1"], k) = Get(observed.before, k)
        /\ sent # <<>> /\ sent[1] = Text("ack_location")

\* C25 amended: as above, except that awaiting_field, once "location" is
\* cleared from it, names the field of the question the handler then asks when
\* nothing else was awaited
C25_LocationStoredThenAsks ==
    (observed.seen /\ observed.ev.kind = "location" /\ observed.ev.loc \in {"named", "coords"}) =>
        LET cleared == IF Get(observed.before, "awaiting_field") = "location" THEN None
                       ELSE Get(observed.before, "awaiting_field")
        IN
        /\ Get(session_data["u1"], "location") = (IF observed.ev.loc = "named" THEN "Clinic Rd" ELSE "12.9,77.6")
        /\ Get(session_data["u1"], "location_address") = Get(session_data["u1"], "location")
        /\ Get(session_data["u1"], "location_coords") = "12.9,77.6"
        /\ ~observed.reached
        /\ Get(session_data["u1"], "awaiting_address") # True
        /\ \/ Get(session_data["u1"], "awaiting_field") = cleared
           \/ cleared = None /\ Get(session_data["u1"], "awaiting_field") \in {"time", "date"} \cap {AskedField(sent)}
        /\ \A k \in RequiredFields \ {"location"} : Get(session_data["u1"], k) = Get(observed.before, k)
        /\ sent # <<>> /\ sent[1] = Text("ack_location")

\* a named location arrived while the location was awaited
C25_Witness ==
    /\ observed.seen /\ observed.ev.kind = "location" /\ observed.ev.loc = "named"
    /\ Get(observed.before, "awaiting_field") = "location"
    /\ Get(observed.before, "awaiting_address") = True
    /\ Get(session_data["u1"], "location") = "Clinic Rd"
    /\ Get(session_data["u1"], "awaiting_field") = None

\* C26: the booking record built on confirmation holds the sender, the time of
\* confirmation and a non-empty value for date, time, category, sub_category,
\* age and the location (as an address or as coordinates), whichever route
\* filled the location
C26_RecordIsComplete ==
    record.built =>
        /\ record.user_number \in Users
        /\ NonEmpty(record.confirmed_at)
        /\ \A k \in RequiredFields \ {"location"} : NonEmpty(record[k])
        /\ NonEmpty(record.location_address) \/ NonEmpty(record.location_coords)

\* a booking whose location came from a shared location was confirmed
C26_Witness ==
    /\ record.built
    /\ record.user_number = "u1"
    /\ record.location_address = "Clinic Rd"
    /\ record.location_coords = "12.9,77.6"
    /\ \A k \in RequiredFields \ {"location"} : NonEmpty(record[k])

----------------------------------------------------------------------------
(* Properties of the handler when its I/O fails *)

\* C27: when the write of the booking record fails the confirmation still
\* completes, the acknowledgement is sent and the session is reset to empty;
\* send_appointment_to_node never raises, and it returns False whenever the
\* backend did not take the record
C27_DeliveryFailureTolerated ==
    /\ io.write = "failed" =>
            /\ record.built
            /\ sent = <<Text("confirmation_yes")>>
            /\ session_data["u1"] = make_empty_session
            /\ status = "ok"
    /\ io.post # "none" =>
            /\ io.returned \in {True, False}
            /\ io.post # "accepted" => io.returned = False

\* a booking was confirmed although its record could not be written
C27_Witness ==
    /\ io.write = "failed"
    /\ record.built /\ record.category = "lab test"
    /\ sent = <<Text("confirmation_yes")>>
    /\ session_data["u1"] = make_empty_session

\* C28: two messages of the same user are never handled interleaved: no two
\* coroutines for one user are both past their check-then-insert on
\* processed_message_ids and short of their return
C28_NotInterleaved ==
    \A i, j \in 1..Len(tasks) :
        (i # j /\ tasks[i].ev.from = tasks[j].ev.from) =>
            ~(tasks[i].pc \in {"handle", "store"} /\ tasks[j].pc \in {"handle", "store"})

\* two requests of u1 are in flight at once: one has read the session and not
\* yet written it, the other still waits for its body
C28_Witness ==
    /\ Len(tasks) = 2
    /\ tasks[1].pc = "parse" /\ tasks[2].pc = "store"
    /\ tasks[1].ev.from = tasks[2].ev.from
    /\ loop = 2

\* C29: no failure escapes webhook_handler: whatever the payload, the value
\* returned is "ok" or "ignored"; an exception raised while handling is caught
\* and the handler returns "ok"; a send that is rejected or raises does not
\* raise in the handler, which goes on and returns "ok"
C29_NoFailureEscapes ==
    /\ status \in {"none", "ok", "ignored"}
    /\ fault.payload # "none" => status \in {"ok", "ignored"}
    /\ fault.raised => status = "ok"
    /\ fault.send \in {"rejected", "exception"} =>
            /\ ~fault.raised
            /\ fault.posted \in {"resp", None}
            /\ status = "ok" /\ sent # <<>>

\* a payload that is not a JSON object made the handler raise, after a
\* message whose answer could not be sent
C29_Witness ==
    /\ fault.payload = "not_object" /\ fault.raised
    /\ status = "ok" /\ sent = <<>>
    /\ session_data["u1"] # NoSession

----------------------------------------------------------------------------
(* Properties of normalize_date_time, checked on its direct calls *)

\* C30: with a null date the time words morning, afternoon, evening and night
\* give a null date and 09:00, 15:00, 18:00 and 20:00; the date "today" with
\* a null time gives the date of today and a null time
C30_FriendlyWordsAndToday ==
    normalized.called =>
        /\ (normalized.date_str = None /\ normalized.time_str = "morning") =>
                normalized.out = <<None, "09:00">>
        /\ (normalized.date_str = None /\ normalized.time_str = "afternoon") =>
                normalized.out = <<None, "15:00">>
        /\ (normalized.date_str = None /\ normalized.time_str = "evening") =>
                normalized.out = <<None, "18:00">>
        /\ (normalized.date_str = None /\ normalized.time_str = "night") =>
                normalized.out = <<None, "20:00">>
        /\ (normalized.date_str = "today" /\ normalized.time_str = None) =>
                normalized.out = <<TODAY, None>>

\* normalize_date_time(None, "night") was called and gave (None, "20:00")
C30_Witness ==
    /\ normalized.called
    /\ normalized.date_str = None /\ normalized.time_str = "night"
    /\ normalized.out = <<None, "20:00">>

\* C31 as stated: when only the date phrase is given the time returned is
\* null, and when only the time phrase is given the date returned is null
C31_OtherIsNull ==
    normalized.called =>
        /\ (Truthy(normalized.date_str) /\ normalized.time_str = None) => normalized.out[2] = None
        /\ (normalized.date_str = None /\ Truthy(normalized.time_str)) => normalized.out[1] = None

\* C31: when only the time phrase is given the date returned is null; when
\* only the date phrase is given the time returned is null unless a
\* time-of-day word is among the words of the date phrase, and then the time
\* is the clock time of that word
C31_OtherIsNullUnlessWordInDate ==
    normalized.called =>
        /\ (normalized.date_str = None /\ Truthy(normalized.time_str)) => normalized.out[1] = None
        /\ (Truthy(normalized.date_str) /\ normalized.time_str = None) =>
                normalized.out[2] = CASE normalized.date_str = "tomorrow morning" -> "09:00"
                                      [] normalized.date_str = "evening" -> "18:00"
                                      [] OTHER -> None

\* normalize_date_time("tomorrow morning", None) was called and gave a time
C31_Witness ==
    /\ normalized.called
    /\ normalized.date_str = "tomorrow morning" /\ normalized.time_str = None
    /\ normalized.out = <<TOMORROW, "09:00">>

----------------------------------------------------------------------------
(* Properties of the templated replies *)

\* C32: for every templated kind humanize_response gives a phrasing of that
\* kind, whatever the name; the text of the greeting sent before the menu by
\* the bare-greeting rule is a greeting phrasing also for a sender without a
\* display name
C32_TemplatedReplyIsPhrasing ==
    /\ \A kind \in {"greeting", "ack_location", "confirm_summary", "confirmation_yes", "confirmation_no",
                     "fallback", "friendly_ack", "empathetic"} :
           \A name \in {"Ann Lee", "", None} : humanize_response("", kind, name) = kind
    /\ (Len(sent) = 2 /\ sent[2] = MenuButtons) => sent[1] = Text("greeting")

\* the sender without a display name greeted: an empty text and the menu went out
C32_Witness ==
    /\ sent = <<Text(""), MenuButtons>>
    /\ session_data["u2"] = Put(make_empty_session, "last_interaction", "greeting")
    /\ ContactName("u2") = None

----------------------------------------------------------------------------
(* Properties of the question that is outstanding *)

\* C33: after a message that stores a value into one of the six required
\* fields, either the six are present and the state is 'confirming', or
\* awaiting_field names a required field that is still missing (or the
\* medicine text or the prescription): a question is outstanding
C33_QuestionOutstanding ==
    LET after == session_data["u1"]
        Stored(k) == Truthy(Get(after, k)) /\ Get(after, k) # Get(observed.before, k)
        awaited == Get(after, "awaiting_field")
    IN
    (observed.seen /\ \E k \in RequiredFields : Stored(k)) =>
        \/ Complete(after) /\ Get(after, "state") = "confirming"
        \/ /\ awaited \in RequiredFields \cup {"medicine_text", "prescription_upload"}
           /\ awaited \in RequiredFields => is_missing(after, awaited)

\* the time was awaited and the extractor filled it from a free text: the
\* booking is not complete, yet awaiting_field still names the time
C33_Witness ==
    /\ observed.seen /\ observed.reached /\ observed.ev.kind = "text"
    /\ Get(observed.before, "awaiting_field") = "time" /\ ~Truthy(Get(observed.before, "time"))
    /\ Get(session_data["u1"], "time") = "09:00"
    /\ Get(session_data["u1"], "awaiting_field") = "time"
    /\ ~Complete(session_data["u1"])

----------------------------------------------------------------------------
(* Properties of the option ids the prompts offer *)

\* C34: a reply carrying an id that a prompt of the handler offers (the
\* category menu, the three sub-category prompts, the date and time buttons,
\* the confirm buttons) is answered by a handler of structured replies,
\* without a call of the extractor; a medicine-delivery option is stored as
\* the sub-category and its detail (medicine text or prescription) is awaited
C34_OfferedIdsAreHandled ==
    LET offered == MenuButtons.ids \cup CareOptions.ids \cup MedicineOptions.ids \cup LabOptions.ids
                       \cup DateButtons.ids \cup TimeButtons.ids \cup ConfirmButtons.ids
        id == observed.ev.body
    IN
    (observed.seen /\ observed.ev.kind = "interactive" /\ id \in offered) =>
        /\ ~observed.reached
        /\ id \in MedicineOptions.ids =>
                /\ Get(session_data["u1"], "sub_category") \in MedicineSubs
                /\ Get(session_data["u1"], "awaiting_field") \in {"medicine_text", "prescription_upload"}

\* the medicine options were offered and the reply type_the_medicine came
\* back: it went to the extractor and no sub-category was stored
C34_Witness ==
    /\ observed.seen /\ observed.ev.kind = "interactive" /\ observed.ev.body = "type_the_medicine"
    /\ Get(observed.before, "category") = "medicine delivery"
    /\ Get(observed.before, "awaiting_field") = "sub_category"
    /\ observed.reached
    /\ ~Truthy(Get(session_data["u1"], "sub_category"))
    /\ Get(session_data["u1"], "awaiting_field") = "sub_category"

----------------------------------------------------------------------------
(* Properties of the confirming state *)

\* C35: a message handled while the session is 'confirming' that changes one
\* of the six required fields either sends a new summary or leaves the
\* 'confirming' state, so that "yes" confirms what the last summary showed
C35_ConfirmsWhatWasShown ==
    LET after == session_data["u1"] IN
    (/\ observed.seen
     /\ Get(observed.before, "state") = "confirming"
     /\ \E k \in RequiredFields : Get(after, k) # Get(observed.before, k)) =>
        \/ Get(after, "state") # "confirming"
        \/ \E i \in 1..Len(sent) : sent[i] = Text("confirm_summary")

\* the category button care_at_home arrived while a lab test was to be
\* confirmed: the category changed, no summary was sent and the session is
\* still 'confirming'
C35_Witness ==
    /\ observed.seen /\ observed.ev.kind = "interactive" /\ observed.ev.body = "care_at_home"
    /\ Get(observed.before, "state") = "confirming"
    /\ Get(observed.before, "category") = "lab test"
    /\ Get(session_data["u1"], "category") = "care at home"
    /\ Get(session_data["u1"], "sub_category") = "blood test"
    /\ Get(session_data["u1"], "state") = "confirming"
    /\ sent = <<CareOptions>>

----------------------------------------------------------------------------
(* Properties of the guided booking *)

\* C36: from an empty session, a category button, a sub-category button of
\* that category, a date button, a time button, a typed age and a shared
\* location end with the session 'confirming' and the six required fields
\* equal to what was chosen, whatever the extraction service answered
C36_GuidedBookingCompletes ==
    Len(flow) = 6 =>
        LET s == session_data["u1"] IN
        /\ Get(s, "state") = "confirming"
        /\ Get(s, "category") = (IF flow[1].body = "care_at_home" THEN "care at home" ELSE "lab test")
        /\ Get(s, "sub_category") =
                CASE flow[2].body = "nurse_visit" -> "nurse visit"
                  [] flow[2].body = "physiotherapy" -> "physiotherapy"
                  [] flow[2].body = "elderly_care" -> "elderly care"
                  [] flow[2].body = "post_surgery_care" -> "post surgery care"
                  [] flow[2].body = "blood_test" -> "blood test"
                  [] flow[2].body = "urine_test" -> "urine test"
                  [] flow[2].body = "covid_test" -> "covid test"
                  [] OTHER -> "full body checkup"
        /\ Get(s, "date") = (IF flow[3].body = "date_today" THEN TODAY ELSE TOMORROW)
        /\ Get(s, "time") = CASE flow[4].body = "time_morning" -> "09:00"
                               [] flow[4].body = "time_afternoon" -> "15:00"
                               [] OTHER -> "18:00"
        /\ Get(s, "age") = "32"
        /\ Get(s, "location") = (IF flow[6].loc = "named" THEN "Clinic Rd" ELSE "12.9,77.6")

\* a nurse visit tomorrow evening was booked with the buttons and a pin, and
\* the summary was sent
C36_Witness ==
    /\ Len(flow) = 6 /\ flow[1].body = "care_at_home" /\ flow[2].body = "nurse_visit"
    /\ flow[3].body = "date_tomorrow"
    /\ flow[4].body = "time_evening" /\ flow[6].loc = "coords"
    /\ Get(session_data["u1"], "state") = "confirming"
    /\ Get(session_data["u1"], "sub_category") = "nurse visit"
    /\ Get(session_data["u1"], "time") = "18:00"
    /\ sent[Len(sent)] = ConfirmButtons

----------------------------------------------------------------------------
(* Properties of the sub-category selection *)

\* C37: a sub-category reply handled on a session that holds no category
\* stores the parent category of the sub-category (care at home for the four
\* care options, lab test for the four lab options)
C37_SubCategoryStoresParent ==
    LET sub == MappedText(observed.ev) IN
    (/\ observed.seen /\ observed.ev.kind = "interactive"
     /\ sub \in CareSubs \cup LabSubs
     /\ ~Truthy(Get(observed.before, "category"))) =>
        /\ Get(session_data["u1"], "sub_category") = sub
        /\ Get(session_data["u1"], "category") = (IF sub \in CareSubs THEN "care at home" ELSE "lab test")

\* nurse_visit was the first message of the user: the sub-category is stored
\* and the category is still null
C37_Witness ==
    /\ observed.seen /\ observed.ev.kind = "interactive" /\ observed.ev.body = "nurse_visit"
    /\ observed.before = NoSession
    /\ Get(session_data["u1"], "sub_category") = "nurse visit"
    /\ Get(session_data["u1"], "category") = None
    /\ sent = <<DateButtons>>

----------------------------------------------------------------------------
(* Properties of the location question *)

\* C38: in every stored session, awaiting_field = "location" implies that
\* awaiting_address is true, so that the next typed text is taken as the address
C38_LocationAwaitedMeansAddress ==
    \A u \in Users :
        Get(session_data[u], "awaiting_field") = "location" =>
            Get(session_data[u], "awaiting_address") = True

\* the medicine names were typed when only the location was missing: the
\* location is asked for and awaiting_address is still false
C38_Witness ==
    /\ Get(session_data["u1"], "awaiting_field") = "location"
    /\ Get(session_data["u1"], "awaiting_address") = False
    /\ Get(session_data["u1"], "medicine_text") = "urgent medicine"
    /\ sent = <<Text("friendly_ack"), Text("Please share your location or type your address.")>>

----------------------------------------------------------------------------
(* Properties of the store of sessions and of the set of message ids *)

====
